---- MODULE Spec2Model ----
(***************************************************************************)
(* NES emulator core: 6502 run loop, system bus and PPU timing/register    *)
(* file (src/src/cpu.rs, src/src/bus.rs, src/src/ppu/mod.rs).              *)
(*                                                                         *)
(* The machine is the nest of structs of the source: CPU { registers,      *)
(* bus: Bus { cpu_vram, prg_rom, cycles, ppu: MyPPU { ... } } }.  The      *)
(* handlers are sequential code, so each is an operator from a machine     *)
(* record m = [cpu, bus, ppu, obs, fault] to the machine record after it.  *)
(* obs is an observer (history) record: it records the events the          *)
(* properties are about and never influences cpu, bus or ppu.              *)
(*                                                                         *)
(* Bytes of PRG ROM that hold code are inputs: the opcode and operand      *)
(* bytes read at PC are parameters of the instruction actions.  The        *)
(* interrupt vectors are fixed cells of prg_rom chosen by Init.            *)
(***************************************************************************)
EXTENDS Integers, Naturals, Sequences, FiniteSets, TLC

VARIABLES cpu, bus, ppu, obs, pos

vars == <<cpu, bus, ppu, obs, pos>>

(***************************************************************************)
(* Bounds of the model.                                                    *)
(***************************************************************************)
\* instructions executed after the initial snapshot in the specification Spec
MaxSteps == 3
\* scanlines the PPU goes through in a run of SpecFrame: one frame
MaxScanlines == 262
\* writes to the Control port per run of SpecFrame
MaxCtrlWrites == 2
\* dots at the start of a busy scanline in which SpecFrame runs other
\* instructions than NOP
BusyDots == 12
\* how many $2007 accesses a run of SpecVram makes
MaxDataOps == 2
\* how many instructions a run of SpecStack executes
MaxStackSteps == 3
\* instructions a run of SpecFlow executes
MaxFlowSteps == 3
\* instructions a run of SpecAlu executes
MaxAluSteps == 1
\* instructions a run of SpecRegs executes
MaxRegSteps == 2
MaxRmwSteps == 2

(***************************************************************************)
(* Program constants.                                                      *)
(***************************************************************************)
STACK == 256
STACK_RESET == 253
DotsPerScanline == 341
VblankScanline == 241
ScanlinesPerFrame == 262
NMI_VECTOR == 65530
RESET_VECTOR == 65532
BRK_VECTOR == 65534
NMI_CYCLES == 2
NMI_B_FLAG_MASK == 32
BRK_CYCLES == 7
CARTRIDGE_ROM_START == 32768
RESET_STATUS == 36

CARRY == 1
ZERO == 2
INTERRUPT_DISABLE == 4
DECIMAL_MODE == 8
BREAK == 16
BREAK2 == 32
OVERFLOW == 64
NEGATIVE == 128

VBLANK_STARTED == 128
SPRITE_ZERO_HIT == 64
SPRITE_OVERFLOW == 32
GENERATE_NMI == 128
VRAM_ADD_INCREMENT == 4

\* array lengths: Bus::cpu_vram, MyPPU::vram, MyPPU::palette_table,
\* MyPPU::oam_data, one CHR bank
RAM_SIZE == 2048
VRAM_SIZE == 2048
PALETTE_SIZE == 32
OAM_SIZE == 256
CHR_ROM_PAGE_SIZE == 8192

(***************************************************************************)
(* Fixed-width arithmetic and bit operations.                              *)
(***************************************************************************)
RECURSIVE BitAndN(_, _, _)
BitAndN(a, b, n) ==
    IF n = 0 THEN 0
    ELSE (IF a % 2 = 1 /\ b % 2 = 1 THEN 1 ELSE 0)
         + 2 * BitAndN(a \div 2, b \div 2, n - 1)

BitAnd(a, b) == BitAndN(a, b, 16)

RECURSIVE BitOrN(_, _, _)
BitOrN(a, b, n) ==
    IF n = 0 THEN 0
    ELSE (IF a % 2 = 1 \/ b % 2 = 1 THEN 1 ELSE 0)
         + 2 * BitOrN(a \div 2, b \div 2, n - 1)

BitOr(a, b) == BitOrN(a, b, 16)

\* bitflags: contains / insert / remove / set
BitXor(a, b) == BitOr(a, b) - BitAnd(a, b)

Contains(bits, flag) == BitAnd(bits, flag) = flag
Insert(bits, flag) == BitOr(bits, flag)
Remove(bits, flag) == bits - BitAnd(bits, flag)
SetFlag(bits, flag, on) == IF on THEN Insert(bits, flag) ELSE Remove(bits, flag)

wrapping_add8(a, b) == (a + b) % 256
wrapping_sub8(a, b) == (a - b + 256) % 256
wrapping_add16(a, b) == (a + b) % 65536

\* Option<u8>
None == <<>>
Some(v) == <<v>>

\* a zero-initialised byte array kept as the function of its non-zero cells
ArrRead(arr, i) == IF i \in DOMAIN arr THEN arr[i] ELSE 0
ArrWrite(arr, i, v) ==
    IF v = 0
    THEN [j \in (DOMAIN arr) \ {i} |-> arr[j]]
    ELSE [j \in (DOMAIN arr) \cup {i} |-> IF j = i THEN v ELSE arr[j]]

\* sequencing: the value of e, once computed, handed to the rest of the code
With(e, Rest(_)) == CHOOSE out \in {Rest(v) : v \in {e}} : TRUE

(***************************************************************************)
(* PPU register objects (ppu_registers/ppu_ctrl.rs, ppu_status.rs,         *)
(* ppu_addr.rs, ppu_scroll.rs).  ControlRegister and StatusRegister are    *)
(* bitflag bytes; AddrRegister and ScrollRegister hold two bytes and a     *)
(* write latch each.                                                       *)
(***************************************************************************)
generate_vblank_nmi(control) == Contains(control, GENERATE_NMI)
control_update(control, data) == data

set_vblank_status(st, on) == SetFlag(st, VBLANK_STARTED, on)
set_sprite_zero_hit(st, on) == SetFlag(st, SPRITE_ZERO_HIT, on)
reset_vblank_status(st) == Remove(st, VBLANK_STARTED)
is_in_vblank(st) == Contains(st, VBLANK_STARTED)
snapshot(st) == st

vram_addr_increment(control) ==
    IF Contains(control, VRAM_ADD_INCREMENT) THEN 32 ELSE 1

AddrRegister_new == [hi |-> 0, lo |-> 0, hi_ptr |-> TRUE]
addr_get(a) == a.hi * 256 + a.lo
addr_set(a, v) == [a EXCEPT !.hi = v \div 256, !.lo = v % 256]
addr_update(a, data) ==
    LET a1 == IF a.hi_ptr THEN [a EXCEPT !.hi = data] ELSE [a EXCEPT !.lo = data]
        a2 == IF addr_get(a1) > 16383
              THEN addr_set(a1, BitAnd(addr_get(a1), 16383)) ELSE a1
    IN  [a2 EXCEPT !.hi_ptr = ~a.hi_ptr]
addr_reset_latch(a) == [a EXCEPT !.hi_ptr = TRUE]
addr_increment(a, inc) == addr_set(a, (addr_get(a) + inc) % 16384)

ScrollRegister_new == [scroll_x |-> 0, scroll_y |-> 0, latch |-> FALSE]
scroll_write(s, data) ==
    LET s1 == IF ~s.latch THEN [s EXCEPT !.scroll_x = data]
                          ELSE [s EXCEPT !.scroll_y = data]
    IN  [s1 EXCEPT !.latch = ~s.latch]
scroll_reset_latch(s) == [s EXCEPT !.latch = FALSE]

(***************************************************************************)
(* MyPPU (src/src/ppu/mod.rs).                                             *)
(***************************************************************************)
MyPPU_new ==
    [control |-> 0, mask |-> 0, status |-> 0, oam_addr |-> 0,
     scroll |-> ScrollRegister_new, addr |-> AddrRegister_new,
     oam_data |-> <<>>, internal_buffer |-> 0,
     scanline |-> 0, cycles |-> 0, nmi_interrupt |-> None,
     chr_rom |-> <<>>, chr_len |-> CHR_ROM_PAGE_SIZE,
     palette_table |-> <<>>, vram |-> <<>>, mirroring |-> "HORIZONTAL"]

\* MyPPU::tick with the end of the frame one scanline late
ppu_tick_late_wrap(p, n) ==
    IF p.cycles + n >= DotsPerScanline
    THEN With([p EXCEPT !.cycles = p.cycles + n - DotsPerScanline,
                        !.scanline = p.scanline + 1], LAMBDA p1 :
         With(IF p1.scanline = VblankScanline
              THEN [p1 EXCEPT
                      !.status = set_sprite_zero_hit(set_vblank_status(@, TRUE), FALSE),
                      !.nmi_interrupt = IF generate_vblank_nmi(p1.control)
                                        THEN Some(1) ELSE @]
              ELSE p1, LAMBDA p2 :
         IF p2.scanline > ScanlinesPerFrame
         THEN [ppu |-> [p2 EXCEPT
                          !.scanline = 0,
                          !.nmi_interrupt = None,
                          !.status = reset_vblank_status(set_sprite_zero_hit(@, FALSE))],
               ret |-> TRUE]
         ELSE [ppu |-> p2, ret |-> FALSE]))
    ELSE [ppu |-> [p EXCEPT !.cycles = p.cycles + n], ret |-> FALSE]

\* MyPPU::tick latching the NMI at scanline 241 whatever Control holds
ppu_tick_always_latch(p, n) ==
    IF p.cycles + n >= DotsPerScanline
    THEN With([p EXCEPT !.cycles = p.cycles + n - DotsPerScanline,
                        !.scanline = p.scanline + 1], LAMBDA p1 :
         With(IF p1.scanline = VblankScanline
              THEN [p1 EXCEPT
                      !.status = set_sprite_zero_hit(set_vblank_status(@, TRUE), FALSE),
                      !.nmi_interrupt = Some(1)]
              ELSE p1, LAMBDA p2 :
         IF p2.scanline >= ScanlinesPerFrame
         THEN [ppu |-> [p2 EXCEPT
                          !.scanline = 0,
                          !.nmi_interrupt = None,
                          !.status = reset_vblank_status(set_sprite_zero_hit(@, FALSE))],
               ret |-> TRUE]
         ELSE [ppu |-> p2, ret |-> FALSE]))
    ELSE [ppu |-> [p EXCEPT !.cycles = p.cycles + n], ret |-> FALSE]

\* MyPPU::tick leaving the vblank flag set at the end of the frame
ppu_tick_keep_vblank(p, n) ==
    IF p.cycles + n >= DotsPerScanline
    THEN With([p EXCEPT !.cycles = p.cycles + n - DotsPerScanline,
                        !.scanline = p.scanline + 1], LAMBDA p1 :
         With(IF p1.scanline = VblankScanline
              THEN [p1 EXCEPT
                      !.status = set_sprite_zero_hit(set_vblank_status(@, TRUE), FALSE),
                      !.nmi_interrupt = IF generate_vblank_nmi(p1.control)
                                        THEN Some(1) ELSE @]
              ELSE p1, LAMBDA p2 :
         IF p2.scanline >= ScanlinesPerFrame
         THEN [ppu |-> [p2 EXCEPT
                          !.scanline = 0,
                          !.nmi_interrupt = None,
                          !.status = set_sprite_zero_hit(@, FALSE)],
               ret |-> TRUE]
         ELSE [ppu |-> p2, ret |-> FALSE]))
    ELSE [ppu |-> [p EXCEPT !.cycles = p.cycles + n], ret |-> FALSE]

\* MyPPU::tick starting every scanline at dot 0
ppu_tick_drop_dots(p, n) ==
    IF p.cycles + n >= DotsPerScanline
    THEN With([p EXCEPT !.cycles = 0, !.scanline = p.scanline + 1], LAMBDA p1 :
         With(IF p1.scanline = VblankScanline
              THEN [p1 EXCEPT
                      !.status = set_sprite_zero_hit(set_vblank_status(@, TRUE), FALSE),
                      !.nmi_interrupt = IF generate_vblank_nmi(p1.control)
                                        THEN Some(1) ELSE @]
              ELSE p1, LAMBDA p2 :
         IF p2.scanline >= ScanlinesPerFrame
         THEN [ppu |-> [p2 EXCEPT
                          !.scanline = 0,
                          !.nmi_interrupt = None,
                          !.status = reset_vblank_status(set_sprite_zero_hit(@, FALSE))],
               ret |-> TRUE]
         ELSE [ppu |-> p2, ret |-> FALSE]))
    ELSE [ppu |-> [p EXCEPT !.cycles = p.cycles + n], ret |-> FALSE]

\* MyPPU::tick: the PPU after the call and the boolean it returns
ppu_tick(p, n) ==
    IF p.cycles + n >= DotsPerScanline
    THEN With([p EXCEPT !.cycles = p.cycles + n - DotsPerScanline,
                        !.scanline = p.scanline + 1], LAMBDA p1 :
         With(IF p1.scanline = VblankScanline
              THEN [p1 EXCEPT
                      !.status = set_sprite_zero_hit(set_vblank_status(@, TRUE), FALSE),
                      !.nmi_interrupt = IF generate_vblank_nmi(p1.control)
                                        THEN Some(1) ELSE @]
              ELSE p1, LAMBDA p2 :
         IF p2.scanline >= ScanlinesPerFrame
         THEN [ppu |-> [p2 EXCEPT
                          !.scanline = 0,
                          !.nmi_interrupt = None,
                          !.status = reset_vblank_status(set_sprite_zero_hit(@, FALSE))],
               ret |-> TRUE]
         ELSE [ppu |-> p2, ret |-> FALSE]))
    ELSE [ppu |-> [p EXCEPT !.cycles = p.cycles + n], ret |-> FALSE]

\* a poll that reads the latch and leaves it set
poll_nmi_interrupt_peek(p) == [ppu |-> p, val |-> p.nmi_interrupt]

\* MyPPU::poll_nmi_interrupt: Option::take
poll_nmi_interrupt(p) ==
    [ppu |-> [p EXCEPT !.nmi_interrupt = None], val |-> p.nmi_interrupt]

\* a Control write that latches on the level of NMI-enable, not on its edge
write_to_ctrl_level(p, value) ==
    With([p EXCEPT !.control = control_update(@, value)], LAMBDA p1 :
    IF generate_vblank_nmi(p1.control) /\ is_in_vblank(p1.status)
    THEN [p1 EXCEPT !.nmi_interrupt = Some(1)]
    ELSE p1)

\* a Control write that latches on the edge of NMI-enable outside vblank too
write_to_ctrl_no_vblank(p, value) ==
    With(generate_vblank_nmi(p.control), LAMBDA before_nmi_status :
    With([p EXCEPT !.control = control_update(@, value)], LAMBDA p1 :
    IF ~before_nmi_status /\ generate_vblank_nmi(p1.control)
    THEN [p1 EXCEPT !.nmi_interrupt = Some(1)]
    ELSE p1))

write_to_ctrl(p, value) ==
    With(generate_vblank_nmi(p.control), LAMBDA before_nmi_status :
    With([p EXCEPT !.control = control_update(@, value)], LAMBDA p1 :
    IF ~before_nmi_status /\ generate_vblank_nmi(p1.control) /\ is_in_vblank(p1.status)
    THEN [p1 EXCEPT !.nmi_interrupt = Some(1)]
    ELSE p1))

write_to_mask(p, value) == [p EXCEPT !.mask = value]

\* a Status read that leaves the Scroll latch as it is
read_status_keep_scroll(p) ==
    [ppu |-> [p EXCEPT !.status = reset_vblank_status(@),
                       !.addr = addr_reset_latch(@)],
     val |-> snapshot(p.status)]

read_status(p) ==
    LET data == snapshot(p.status)
    IN  [ppu |-> [p EXCEPT !.status = reset_vblank_status(@),
                           !.addr = addr_reset_latch(@),
                           !.scroll = scroll_reset_latch(@)],
         val |-> data]

write_to_oam_addr(p, value) == [p EXCEPT !.oam_addr = value]

write_to_oam_data(p, value) ==
    [p EXCEPT !.oam_data = ArrWrite(@, p.oam_addr, value),
              !.oam_addr = wrapping_add8(@, 1)]

read_oam_data(p) == ArrRead(p.oam_data, p.oam_addr)

write_to_scroll(p, value) == [p EXCEPT !.scroll = scroll_write(@, value)]

write_to_ppu_addr(p, value) == [p EXCEPT !.addr = addr_update(@, value)]

\* an increment that does not look at Control
increment_vram_addr_by_one(p) ==
    [p EXCEPT !.addr = addr_increment(p.addr, 1)]

increment_vram_addr(p) ==
    [p EXCEPT !.addr = addr_increment(@, vram_addr_increment(p.control))]

\* Horizontal mirroring with nametable 3 folded onto nametable 1's cells
mirror_vram_addr_nt3_low(p, addr) ==
    With(BitAnd(addr, 12287), LAMBDA mirrored_vram :
    With(mirrored_vram - 8192, LAMBDA vram_index :
    With(vram_index \div 1024, LAMBDA name_table :
    CASE p.mirroring = "VERTICAL" /\ name_table \in {2, 3} -> vram_index - 2048
      [] p.mirroring = "HORIZONTAL" /\ name_table = 2 -> vram_index - 1024
      [] p.mirroring = "HORIZONTAL" /\ name_table = 1 -> vram_index - 1024
      [] p.mirroring = "HORIZONTAL" /\ name_table = 3 -> vram_index - 3072
      [] OTHER -> vram_index)))

\* MyPPU::mirror_vram_addr: the index into vram of a nametable address
mirror_vram_addr(p, addr) ==
    With(BitAnd(addr, 12287), LAMBDA mirrored_vram :
    With(mirrored_vram - 8192, LAMBDA vram_index :
    With(vram_index \div 1024, LAMBDA name_table :
    CASE p.mirroring = "VERTICAL" /\ name_table \in {2, 3} -> vram_index - 2048
      [] p.mirroring = "HORIZONTAL" /\ name_table = 2 -> vram_index - 1024
      [] p.mirroring = "HORIZONTAL" /\ name_table = 1 -> vram_index - 1024
      [] p.mirroring = "HORIZONTAL" /\ name_table = 3 -> vram_index - 2048
      [] OTHER -> vram_index)))

\* the outcome of a PPU call that may panic: the PPU it leaves, the byte it
\* returns and the panic, "none" when it returns
Returned(p, v) == [ppu |-> p, val |-> v, panic |-> "none"]
Panicked(p, what) == [ppu |-> p, val |-> 0, panic |-> what]

OutOfBounds == "panic: index out of bounds"
Unimplemented == "panic: not implemented"

PaletteMirrors == {16144, 16148, 16152, 16156}

\* MyPPU::write_to_data with the four mirror addresses stored in their own
\* palette cells
write_to_data_unfolded(p, value) ==
    With(addr_get(p.addr), LAMBDA addr :
    IF addr <= 8191 THEN Returned(increment_vram_addr(p), 0)
    ELSE IF addr <= 12287
    THEN With(mirror_vram_addr(p, addr), LAMBDA i :
         IF i >= VRAM_SIZE THEN Panicked(p, OutOfBounds)
         ELSE Returned(increment_vram_addr([p EXCEPT !.vram = ArrWrite(@, i, value)]), 0))
    ELSE IF addr <= 16127 THEN Panicked(p, Unimplemented)
    ELSE IF addr <= 16383
    THEN With(addr - 16128, LAMBDA i :
         IF i >= PALETTE_SIZE THEN Panicked(p, OutOfBounds)
         ELSE Returned(increment_vram_addr(
                         [p EXCEPT !.palette_table = ArrWrite(@, i, value)]), 0))
    ELSE Panicked(p, "panic: unexpected access to mirrored space"))

\* MyPPU::write_to_data
write_to_data(p, value) ==
    With(addr_get(p.addr), LAMBDA addr :
    IF addr <= 8191 THEN Returned(increment_vram_addr(p), 0)
    ELSE IF addr <= 12287
    THEN With(mirror_vram_addr(p, addr), LAMBDA i :
         IF i >= VRAM_SIZE THEN Panicked(p, OutOfBounds)
         ELSE Returned(increment_vram_addr([p EXCEPT !.vram = ArrWrite(@, i, value)]), 0))
    ELSE IF addr <= 16127 THEN Panicked(p, Unimplemented)
    ELSE IF addr \in PaletteMirrors
    THEN With(addr - 16 - 16128, LAMBDA add_mirror :
         Returned(increment_vram_addr(
                    [p EXCEPT !.palette_table = ArrWrite(@, add_mirror, value)]), 0))
    ELSE IF addr <= 16383
    THEN With(addr - 16128, LAMBDA i :
         IF i >= PALETTE_SIZE THEN Panicked(p, OutOfBounds)
         ELSE Returned(increment_vram_addr(
                         [p EXCEPT !.palette_table = ArrWrite(@, i, value)]), 0))
    ELSE Panicked(p, "panic: unexpected access to mirrored space"))

\* MyPPU::read_data; the address is incremented before the access
read_data(p) ==
    With(addr_get(p.addr), LAMBDA addr :
    With(increment_vram_addr(p), LAMBDA p1 :
    IF addr <= 8191
    THEN IF addr >= p1.chr_len THEN Panicked(p1, OutOfBounds)
         ELSE Returned([p1 EXCEPT !.internal_buffer = ArrRead(p1.chr_rom, addr)],
                       p1.internal_buffer)
    ELSE IF addr <= 12287
    THEN With(mirror_vram_addr(p1, addr), LAMBDA i :
         IF i >= VRAM_SIZE THEN Panicked(p1, OutOfBounds)
         ELSE Returned([p1 EXCEPT !.internal_buffer = ArrRead(p1.vram, i)],
                       p1.internal_buffer))
    ELSE IF addr <= 16127 THEN Panicked(p1, Unimplemented)
    ELSE IF addr \in PaletteMirrors
    THEN Returned(p1, ArrRead(p1.palette_table, addr - 16 - 16128))
    ELSE IF addr <= 16383
    THEN With(addr - 16128, LAMBDA i :
         IF i >= PALETTE_SIZE THEN Panicked(p1, OutOfBounds)
         ELSE Returned(p1, ArrRead(p1.palette_table, i)))
    ELSE Panicked(p1, "panic: unexpected access to mirrored space")))

\* an OAM DMA that copies to the start of OAM whatever oam_addr holds
write_oam_dma_at_zero(p, data) ==
    [p EXCEPT !.oam_data = [i \in {j \in 0..(OAM_SIZE - 1) : data[j + 1] # 0} |-> data[i + 1]]]

\* the n iterations of the loop of MyPPU::write_oam_dma that start at
\* data[from], the first half before the second
RECURSIVE write_oam_dma_from(_, _, _, _)
write_oam_dma_from(p, data, from, n) ==
    IF n = 1
    THEN [p EXCEPT !.oam_data = ArrWrite(@, p.oam_addr, data[from]),
                   !.oam_addr = wrapping_add8(@, 1)]
    ELSE With(write_oam_dma_from(p, data, from, n \div 2), LAMBDA p1 :
         write_oam_dma_from(p1, data, from + (n \div 2), n - (n \div 2)))

write_oam_dma(p, data) == write_oam_dma_from(p, data, 1, OAM_SIZE)

(***************************************************************************)
(* Observer: what the properties use.  ticks is the log of the Bus::tick   *)
(* calls of the current loop step; the per-frame counters restart when     *)
(* MyPPU::tick reports the end of a frame.                                 *)
(***************************************************************************)
PpuView(p) ==
    [scanline |-> p.scanline, cycles |-> p.cycles, status |-> p.status,
     control |-> p.control, nmi_interrupt |-> p.nmi_interrupt]

NoFrame == [complete |-> FALSE, held |-> FALSE, rises |-> 0, tick_rises |-> 0,
            vblank_nmi_ticks |-> 0, nmi_entries |-> 0, callbacks |-> 0]

\* overflow_checks is the build profile: TRUE when u8 and u16 additions
\* that overflow panic (debug), FALSE when they wrap (release)
Observer_new ==
    [last_op |-> "new", ticks |-> <<>>, pushed |-> <<>>, ctrl |-> <<>>,
     status_read |-> <<>>,
     callbacks |-> 0, vblank_nmi_ticks |-> 0, rises |-> 0, tick_rises |-> 0,
     nmi_entries |-> 0,
     held |-> FALSE, last_frame |-> NoFrame,
     frames |-> 0, lines |-> 0, steps |-> 0, ctrl_writes |-> 0,
     access |-> <<>>, data_ops |-> 0,
     overflow_checks |-> FALSE,
     events |-> <<>>, fresh_callbacks |-> 0]

ObserveTick(o, pre, r, c, called) ==
    LET post == r.ppu
        entry == [n |-> c, pre |-> PpuView(pre), post |-> PpuView(post),
                  ret |-> r.ret, callback |-> called]
        callbacks1 == o.callbacks + (IF called THEN 1 ELSE 0)
        vticks1 == o.vblank_nmi_ticks
                   + (IF pre.scanline + 1 = VblankScanline /\ post.scanline = VblankScanline
                         /\ generate_vblank_nmi(pre.control) THEN 1 ELSE 0)
        rose == IF pre.nmi_interrupt = None /\ post.nmi_interrupt # None THEN 1 ELSE 0
        lines1 == o.lines + (IF post.scanline # pre.scanline THEN 1 ELSE 0)
    IN  IF r.ret
        THEN [o EXCEPT !.ticks = Append(@, entry),
                       !.events = Append(@, [kind |-> "tick", n |-> c]),
                       !.fresh_callbacks = @ + (IF called THEN 1 ELSE 0),
                       !.lines = lines1,
                       !.last_frame = [complete |-> TRUE, held |-> o.held,
                                       rises |-> o.rises + rose,
                                       tick_rises |-> o.tick_rises + rose,
                                       vblank_nmi_ticks |-> vticks1,
                                       nmi_entries |-> o.nmi_entries,
                                       callbacks |-> callbacks1],
                       !.callbacks = 0, !.vblank_nmi_ticks = 0, !.rises = 0,
                       !.tick_rises = 0, !.nmi_entries = 0,
                       !.held = generate_vblank_nmi(post.control),
                       !.frames = @ + 1]
        ELSE [o EXCEPT !.ticks = Append(@, entry),
                       !.events = Append(@, [kind |-> "tick", n |-> c]),
                       !.fresh_callbacks = @ + (IF called THEN 1 ELSE 0),
                       !.lines = lines1,
                       !.callbacks = callbacks1,
                       !.vblank_nmi_ticks = vticks1,
                       !.rises = @ + rose,
                       !.tick_rises = @ + rose]

ObserveCtrlWrite(o, pre, value, post) ==
    [o EXCEPT !.ctrl = [pre |-> PpuView(pre), value |-> value, post |-> PpuView(post)],
              !.rises = @ + (IF pre.nmi_interrupt = None /\ post.nmi_interrupt # None
                             THEN 1 ELSE 0),
              !.held = @ /\ generate_vblank_nmi(post.control),
              !.ctrl_writes = @ + 1]

ObserveStatusRead(o, pre, r) ==
    [o EXCEPT !.status_read = [pre |-> pre, val |-> r.val, post |-> r.ppu]]

(***************************************************************************)
(* Bus (src/src/bus.rs).                                                   *)
(***************************************************************************)
\* Bus::tick calling back on the level of the latch, not on its edge
bus_tick_level(m, c) ==
    With(ppu_tick(m.ppu, c * 3), LAMBDA r :
    With(r.ppu.nmi_interrupt # None, LAMBDA nmi_after :
    [m EXCEPT !.bus.cycles = @ + c,
              !.ppu = r.ppu,
              !.obs = ObserveTick(@, m.ppu, r, c, nmi_after)]))

\* Bus::tick; the host frame callback only reads the PPU and writes the joypad
bus_tick(m, c) ==
    With(m.ppu.nmi_interrupt # None, LAMBDA nmi_before :
    With(ppu_tick(m.ppu, c * 3), LAMBDA r :
    With(r.ppu.nmi_interrupt # None, LAMBDA nmi_after :
    [m EXCEPT !.bus.cycles = @ + c,
              !.ppu = r.ppu,
              !.obs = ObserveTick(@, m.ppu, r, c, ~nmi_before /\ nmi_after)])))

poll_nmi_status(m) ==
    With(poll_nmi_interrupt(m.ppu), LAMBDA r :
    [m |-> [m EXCEPT !.ppu = r.ppu], val |-> r.val])

\* a PRG index that does not fold a 16 KiB image
PrgIndex_unfolded(len, addr0) == addr0 - CARTRIDGE_ROM_START

\* Bus::read_prg_rom; cells of the image that hold the current instruction
\* are the bytes m.fetch, the other cells are prg_rom
PrgIndex(len, addr0) ==
    IF len = 16384 /\ addr0 - CARTRIDGE_ROM_START >= 16384
    THEN (addr0 - CARTRIDGE_ROM_START) % 16384
    ELSE addr0 - CARTRIDGE_ROM_START

read_prg_rom(m, addr0) ==
    With(PrgIndex(m.bus.prg_len, addr0), LAMBDA addr :
    With(PrgIndex(m.bus.prg_len, m.fetch.at), LAMBDA code_at :
    IF addr \in DOMAIN m.bus.prg_rom THEN m.bus.prg_rom[addr]
    ELSE IF m.fetch.at >= CARTRIDGE_ROM_START /\ addr - code_at \in 0..(Len(m.fetch.bytes) - 1)
         THEN m.fetch.bytes[addr - code_at + 1]
         ELSE 0))

Fault(m, what) == [m EXCEPT !.fault = IF @ = "none" THEN what ELSE @]

AddOverflow == "panic: attempt to add with overflow"

IsPanic(f) ==
    f \in {"panic: write to PPU status", "panic: write to ROM", OutOfBounds,
           Unimplemented, "panic: unexpected access to mirrored space",
           AddOverflow}

\* the machine after a PPU call that may panic
PpuOutcome(m, r) ==
    IF r.panic = "none" THEN [m EXCEPT !.ppu = r.ppu]
    ELSE Fault([m EXCEPT !.ppu = r.ppu], r.panic)

RegMirror(addr) ==
    IF addr >= 8200 /\ addr <= 16383 THEN BitAnd(addr, 8199) ELSE addr

\* a work-RAM mirror that keeps address bit 11
ram_mirror_4k(addr) == BitAnd(addr, 4095)

\* mirrored_addr of the RAM arms of Bus::mem_read and Bus::mem_write
ram_mirror(addr) == BitAnd(addr, 2047)

\* Bus::mem_read: the machine after the read and the byte read
mem_read(m, addr0) ==
    With(RegMirror(addr0), LAMBDA addr :
    IF addr <= 8191 THEN [m |-> m, val |-> ArrRead(m.bus.cpu_vram, ram_mirror(addr))]
    ELSE IF addr \in {8192, 8193, 8195, 8197, 8198, 16404} THEN [m |-> m, val |-> 0]
    ELSE IF addr = 8194
         THEN With(read_status(m.ppu), LAMBDA r :
              [m |-> [m EXCEPT !.ppu = r.ppu,
                               !.obs = ObserveStatusRead(@, m.ppu, r)],
               val |-> r.val])
    ELSE IF addr = 8196 THEN [m |-> m, val |-> read_oam_data(m.ppu)]
    ELSE IF addr = 8199
         THEN With(read_data(m.ppu), LAMBDA r :
              [m |-> PpuOutcome(m, r), val |-> r.val])
    ELSE IF addr >= 16384 /\ addr <= 16405 THEN [m |-> m, val |-> 0]
    ELSE IF addr = 16406 THEN [m |-> Fault(m, "unmodelled"), val |-> 0]
    ELSE IF addr = 16407 THEN [m |-> m, val |-> 0]
    ELSE IF addr >= CARTRIDGE_ROM_START THEN [m |-> m, val |-> read_prg_rom(m, addr)]
    ELSE [m |-> m, val |-> 0])

\* the n iterations from i on of the loop of the $4014 arm of
\* Bus::mem_write, buffer[i] = mem_read(hi + i), the first half before the
\* second: the machine after the reads and the bytes read
RECURSIVE oam_dma_buffer(_, _, _, _)
oam_dma_buffer(m, hi, i, n) ==
    IF n = 1
    THEN With(mem_read(m, hi + i), LAMBDA r : [m |-> r.m, val |-> <<r.val>>])
    ELSE With(oam_dma_buffer(m, hi, i, n \div 2), LAMBDA first :
         With(oam_dma_buffer(first.m, hi, i + (n \div 2), n - (n \div 2)), LAMBDA rest :
         [m |-> rest.m, val |-> first.val \o rest.val]))

\* Bus::mem_write
mem_write(m0, addr0, data) ==
    With([m0 EXCEPT !.obs.events = Append(@, [kind |-> "write", addr |-> addr0])],
         LAMBDA m :
    With(RegMirror(addr0), LAMBDA addr :
    IF addr <= 8191
    THEN [m EXCEPT !.bus.cpu_vram = ArrWrite(@, ram_mirror(addr), data)]
    ELSE IF addr = 8192
         THEN With(write_to_ctrl(m.ppu, data), LAMBDA p1 :
              [m EXCEPT !.ppu = p1, !.obs = ObserveCtrlWrite(@, m.ppu, data, p1)])
    ELSE IF addr = 8193 THEN [m EXCEPT !.ppu = write_to_mask(@, data)]
    ELSE IF addr = 8194 THEN Fault(m, "panic: write to PPU status")
    ELSE IF addr = 8195 THEN [m EXCEPT !.ppu = write_to_oam_addr(@, data)]
    ELSE IF addr = 8196 THEN [m EXCEPT !.ppu = write_to_oam_data(@, data)]
    ELSE IF addr = 8197 THEN [m EXCEPT !.ppu = write_to_scroll(@, data)]
    ELSE IF addr = 8198 THEN [m EXCEPT !.ppu = write_to_ppu_addr(@, data)]
    ELSE IF addr = 8199 THEN PpuOutcome(m, write_to_data(m.ppu, data))
    ELSE IF (addr >= 16384 /\ addr <= 16403) \/ addr = 16405 THEN m
    ELSE IF addr = 16406 THEN Fault(m, "unmodelled")
    ELSE IF addr = 16407 THEN m
    ELSE IF addr = 16404
         THEN With(oam_dma_buffer(m, data * 256, 0, OAM_SIZE), LAMBDA buffer :
              [buffer.m EXCEPT !.ppu = write_oam_dma(@, buffer.val)])
    ELSE IF addr >= CARTRIDGE_ROM_START THEN Fault(m, "panic: write to ROM")
    ELSE m))

\* Mem::mem_read_u16
mem_read_u16(m, p) ==
    With(mem_read(m, p), LAMBDA lo :
    With(mem_read(lo.m, p + 1), LAMBDA hi :
    [m |-> hi.m, val |-> hi.val * 256 + lo.val]))

(***************************************************************************)
(* Opcode table (opcodes.rs): mode, length in bytes and base cycles of the *)
(* opcodes the model executes.                                             *)
(***************************************************************************)
OpCode(mnemonic, mode, len, cycles) ==
    [mnemonic |-> mnemonic, mode |-> mode, len |-> len, cycles |-> cycles]

OpCodes ==
    {0, 3, 6, 7, 8, 10, 15, 16, 19, 23, 27, 31, 32, 35, 38, 39, 40, 42, 47,
     48, 51, 55, 59, 63, 64, 67, 70, 71, 72, 74, 76, 79, 80, 83, 87, 88,
     91, 95, 96, 99, 101, 102, 103, 104, 105, 106, 107, 108, 111, 112, 115,
     119, 123, 127, 136, 138, 141, 144, 152, 154, 160, 162, 168, 169, 170,
     173, 176, 186, 189, 195, 199, 200, 202, 203, 207, 208, 211, 215, 219,
     223, 227, 229, 231, 232, 233, 234, 235, 239, 240, 243, 247, 251, 255}

OPCODES_MAP ==
    [c \in OpCodes |->
       CASE c = 0 -> OpCode("BRK", "NoneAddressing", 1, 7)
         [] c = 3 -> OpCode("*SLO", "Indirect_X", 2, 8)
         [] c = 6 -> OpCode("ASL", "ZeroPage", 2, 5)
         [] c = 7 -> OpCode("*SLO", "ZeroPage", 2, 5)
         [] c = 8 -> OpCode("PHP", "NoneAddressing", 1, 3)
         [] c = 10 -> OpCode("ASL", "NoneAddressing", 1, 2)
         [] c = 15 -> OpCode("*SLO", "Absolute", 3, 6)
         [] c = 16 -> OpCode("BPL", "NoneAddressing", 2, 2)
         [] c = 19 -> OpCode("*SLO", "Indirect_Y", 2, 8)
         [] c = 23 -> OpCode("*SLO", "ZeroPage_X", 2, 6)
         [] c = 27 -> OpCode("*SLO", "Absolute_Y", 3, 7)
         [] c = 31 -> OpCode("*SLO", "Absolute_X", 3, 7)
         [] c = 32 -> OpCode("JSR", "NoneAddressing", 3, 6)
         [] c = 35 -> OpCode("*RLA", "Indirect_X", 2, 8)
         [] c = 38 -> OpCode("ROL", "ZeroPage", 2, 5)
         [] c = 39 -> OpCode("*RLA", "ZeroPage", 2, 5)
         [] c = 40 -> OpCode("PLP", "NoneAddressing", 1, 4)
         [] c = 42 -> OpCode("ROL", "NoneAddressing", 1, 2)
         [] c = 47 -> OpCode("*RLA", "Absolute", 3, 6)
         [] c = 48 -> OpCode("BMI", "NoneAddressing", 2, 2)
         [] c = 51 -> OpCode("*RLA", "Indirect_Y", 2, 8)
         [] c = 55 -> OpCode("*RLA", "ZeroPage_X", 2, 6)
         [] c = 59 -> OpCode("*RLA", "Absolute_Y", 3, 7)
         [] c = 63 -> OpCode("*RLA", "Absolute_X", 3, 7)
         [] c = 64 -> OpCode("RTI", "NoneAddressing", 1, 6)
         [] c = 67 -> OpCode("*SRE", "Indirect_X", 2, 8)
         [] c = 70 -> OpCode("LSR", "ZeroPage", 2, 5)
         [] c = 71 -> OpCode("*SRE", "ZeroPage", 2, 5)
         [] c = 72 -> OpCode("PHA", "NoneAddressing", 1, 3)
         [] c = 74 -> OpCode("LSR", "NoneAddressing", 1, 2)
         [] c = 76 -> OpCode("JMP", "NoneAddressing", 3, 3)
         [] c = 79 -> OpCode("*SRE", "Absolute", 3, 6)
         [] c = 80 -> OpCode("BVC", "NoneAddressing", 2, 2)
         [] c = 83 -> OpCode("*SRE", "Indirect_Y", 2, 8)
         [] c = 87 -> OpCode("*SRE", "ZeroPage_X", 2, 6)
         [] c = 88 -> OpCode("CLI", "NoneAddressing", 1, 2)
         [] c = 91 -> OpCode("*SRE", "Absolute_Y", 3, 7)
         [] c = 95 -> OpCode("*SRE", "Absolute_X", 3, 7)
         [] c = 96 -> OpCode("RTS", "NoneAddressing", 1, 6)
         [] c = 99 -> OpCode("*RRA", "Indirect_X", 2, 8)
         [] c = 101 -> OpCode("ADC", "ZeroPage", 2, 3)
         [] c = 102 -> OpCode("ROR", "ZeroPage", 2, 5)
         [] c = 103 -> OpCode("*RRA", "ZeroPage", 2, 5)
         [] c = 104 -> OpCode("PLA", "NoneAddressing", 1, 4)
         [] c = 105 -> OpCode("ADC", "Immediate", 2, 2)
         [] c = 106 -> OpCode("ROR", "NoneAddressing", 1, 2)
         [] c = 107 -> OpCode("*ARR", "Immediate", 2, 2)
         [] c = 108 -> OpCode("JMP", "NoneAddressing", 3, 5)
         [] c = 111 -> OpCode("*RRA", "Absolute", 3, 6)
         [] c = 112 -> OpCode("BVS", "NoneAddressing", 2, 2)
         [] c = 115 -> OpCode("*RRA", "Indirect_Y", 2, 8)
         [] c = 119 -> OpCode("*RRA", "ZeroPage_X", 2, 6)
         [] c = 123 -> OpCode("*RRA", "Absolute_Y", 3, 7)
         [] c = 127 -> OpCode("*RRA", "Absolute_X", 3, 7)
         [] c = 136 -> OpCode("DEY", "NoneAddressing", 1, 2)
         [] c = 138 -> OpCode("TXA", "NoneAddressing", 1, 2)
         [] c = 141 -> OpCode("STA", "Absolute", 3, 4)
         [] c = 144 -> OpCode("BCC", "NoneAddressing", 2, 2)
         [] c = 152 -> OpCode("TYA", "NoneAddressing", 1, 2)
         [] c = 154 -> OpCode("TXS", "NoneAddressing", 1, 2)
         [] c = 160 -> OpCode("LDY", "Immediate", 2, 2)
         [] c = 162 -> OpCode("LDX", "Immediate", 2, 2)
         [] c = 168 -> OpCode("TAY", "NoneAddressing", 1, 2)
         [] c = 169 -> OpCode("LDA", "Immediate", 2, 2)
         [] c = 170 -> OpCode("TAX", "NoneAddressing", 1, 2)
         [] c = 173 -> OpCode("LDA", "Absolute", 3, 4)
         [] c = 176 -> OpCode("BCS", "NoneAddressing", 2, 2)
         [] c = 186 -> OpCode("TSX", "NoneAddressing", 1, 2)
         [] c = 189 -> OpCode("LDA", "Absolute_X", 3, 4)
         [] c = 195 -> OpCode("*DCP", "Indirect_X", 2, 8)
         [] c = 199 -> OpCode("*DCP", "ZeroPage", 2, 5)
         [] c = 200 -> OpCode("INY", "NoneAddressing", 1, 2)
         [] c = 202 -> OpCode("DEX", "NoneAddressing", 1, 2)
         [] c = 203 -> OpCode("*AXS", "Immediate", 2, 2)
         [] c = 207 -> OpCode("*DCP", "Absolute", 3, 6)
         [] c = 208 -> OpCode("BNE", "NoneAddressing", 2, 2)
         [] c = 211 -> OpCode("*DCP", "Indirect_Y", 2, 8)
         [] c = 215 -> OpCode("*DCP", "ZeroPage_X", 2, 6)
         [] c = 219 -> OpCode("*DCP", "Absolute_Y", 3, 7)
         [] c = 223 -> OpCode("*DCP", "Absolute_X", 3, 7)
         [] c = 227 -> OpCode("*ISB", "Indirect_X", 2, 8)
         [] c = 229 -> OpCode("SBC", "ZeroPage", 2, 3)
         [] c = 231 -> OpCode("*ISB", "ZeroPage", 2, 5)
         [] c = 232 -> OpCode("INX", "NoneAddressing", 1, 2)
         [] c = 233 -> OpCode("SBC", "Immediate", 2, 2)
         [] c = 234 -> OpCode("NOP", "NoneAddressing", 1, 2)
         [] c = 235 -> OpCode("*SBC", "Immediate", 2, 2)
         [] c = 239 -> OpCode("*ISB", "Absolute", 3, 6)
         [] c = 240 -> OpCode("BEQ", "NoneAddressing", 2, 2)
         [] c = 243 -> OpCode("*ISB", "Indirect_Y", 2, 8)
         [] c = 247 -> OpCode("*ISB", "ZeroPage_X", 2, 6)
         [] c = 251 -> OpCode("*ISB", "Absolute_Y", 3, 7)
         [] c = 255 -> OpCode("*ISB", "Absolute_X", 3, 7)]

(***************************************************************************)
(* CPU (src/src/cpu.rs).                                                   *)
(***************************************************************************)
CPU_new ==
    [register_a |-> 0, register_x |-> 0, register_y |-> 0,
     status |-> RESET_STATUS, program_counter |-> 0, stack_pointer |-> STACK_RESET]

page_cross(addr1, addr2) == BitAnd(addr1, 65280) # BitAnd(addr2, 65280)

\* CPU::get_stored_value_address: the machine after the operand reads, the
\* effective address and the page-cross boolean
get_stored_value_address(m, mode, addr) ==
    CASE mode = "ZeroPage" ->
           With(mem_read(m, addr), LAMBDA r :
           [m |-> r.m, addr |-> r.val, cross |-> FALSE])
      [] mode = "Absolute" ->
           With(mem_read_u16(m, addr), LAMBDA r :
           [m |-> r.m, addr |-> r.val, cross |-> FALSE])
      [] mode = "ZeroPage_X" ->
           With(mem_read(m, addr), LAMBDA r :
           [m |-> r.m, addr |-> wrapping_add8(r.val, m.cpu.register_x), cross |-> FALSE])
      [] mode = "ZeroPage_Y" ->
           With(mem_read(m, addr), LAMBDA r :
           [m |-> r.m, addr |-> wrapping_add8(r.val, m.cpu.register_y), cross |-> FALSE])
      [] mode = "Absolute_X" ->
           With(mem_read_u16(m, addr), LAMBDA base :
           With(wrapping_add16(base.val, m.cpu.register_x), LAMBDA a :
           [m |-> base.m, addr |-> a, cross |-> page_cross(base.val, a)]))
      [] mode = "Absolute_Y" ->
           With(mem_read_u16(m, addr), LAMBDA base :
           With(wrapping_add16(base.val, m.cpu.register_y), LAMBDA a :
           [m |-> base.m, addr |-> a, cross |-> page_cross(base.val, a)]))
      [] mode = "Indirect_X" ->
           With(mem_read(m, addr), LAMBDA base :
           With(wrapping_add8(base.val, m.cpu.register_x), LAMBDA ptr :
           With(mem_read(base.m, ptr), LAMBDA lo :
           With(mem_read(lo.m, wrapping_add8(ptr, 1)), LAMBDA hi :
           [m |-> hi.m, addr |-> hi.val * 256 + lo.val, cross |-> FALSE]))))
      [] mode = "Indirect_Y" ->
           With(mem_read(m, addr), LAMBDA base :
           With(mem_read(base.m, base.val), LAMBDA lo :
           With(mem_read(lo.m, wrapping_add8(base.val, 1)), LAMBDA hi :
           With(hi.val * 256 + lo.val, LAMBDA deref_base :
           With(wrapping_add16(deref_base, m.cpu.register_y), LAMBDA deref :
           [m |-> hi.m, addr |-> deref, cross |-> page_cross(deref, deref_base)])))))
      [] OTHER -> [m |-> Fault(m, "unmodelled"), addr |-> 0, cross |-> FALSE]

get_operand_address(m, mode) ==
    IF mode = "Immediate"
    THEN [m |-> m, addr |-> m.cpu.program_counter, cross |-> FALSE]
    ELSE get_stored_value_address(m, mode, m.cpu.program_counter)

stack_push(m, data) ==
    [mem_write(m, STACK + m.cpu.stack_pointer, data)
       EXCEPT !.cpu.stack_pointer = wrapping_sub8(@, 1)]

\* a pop that reads the cell under the stack pointer before moving it
stack_pop_stale(m) ==
    With(mem_read(m, STACK + m.cpu.stack_pointer), LAMBDA r :
    [m |-> [r.m EXCEPT !.cpu.stack_pointer = wrapping_add8(@, 1)], val |-> r.val])

stack_pop(m) ==
    With([m EXCEPT !.cpu.stack_pointer = wrapping_add8(@, 1)], LAMBDA m1 :
    mem_read(m1, STACK + m1.cpu.stack_pointer))

\* the word pushed low byte first
stack_push_u16_lo_first(m, data) ==
    stack_push(stack_push(m, BitAnd(data, 255)), data \div 256)

stack_push_u16(m, data) ==
    stack_push(stack_push(m, data \div 256), BitAnd(data, 255))

stack_pop_u16(m) ==
    With(stack_pop(m), LAMBDA lo :
    With(stack_pop(lo.m), LAMBDA hi :
    [m |-> hi.m, val |-> hi.val * 256 + lo.val]))

\* what the observer records when a status image is pushed
ObservePush(m, cause, byte) ==
    [m EXCEPT !.obs.pushed = [cause |-> cause, byte |-> byte]]

\* CPU::interrupt_nmi with interrupt::NMI; Rust reads
\* b_flag_mask & 0b010000 == 1 as (b_flag_mask & 0b010000) == 1
interrupt_nmi(m) ==
    With(stack_push_u16(m, m.cpu.program_counter), LAMBDA m1 :
    With(SetFlag(SetFlag(m1.cpu.status, BREAK, BitAnd(NMI_B_FLAG_MASK, 16) = 1),
                 BREAK2, BitAnd(NMI_B_FLAG_MASK, 32) = 1), LAMBDA flag :
    With(ObservePush(stack_push(m1, flag), "nmi", flag), LAMBDA m2 :
    With([m2 EXCEPT !.cpu.status = Insert(@, INTERRUPT_DISABLE),
                    !.obs.nmi_entries = @ + 1,
                    !.obs.fresh_callbacks = 0], LAMBDA m3 :
    With(mem_read_u16(bus_tick(m3, NMI_CYCLES), NMI_VECTOR), LAMBDA v :
    [v.m EXCEPT !.cpu.program_counter = v.val])))))

\* a BRK that pushes the address of the byte after the opcode
interrupt_brk_short_return(m) ==
    With(stack_push_u16(m, m.cpu.program_counter), LAMBDA m1 :
    With(Insert(m1.cpu.status, BREAK), LAMBDA flag :
    With(ObservePush(stack_push(m1, flag), "brk", flag), LAMBDA m2 :
    With([m2 EXCEPT !.cpu.status = Insert(@, INTERRUPT_DISABLE)], LAMBDA m3 :
    With(mem_read_u16(bus_tick(m3, BRK_CYCLES), BRK_VECTOR), LAMBDA v :
    [v.m EXCEPT !.cpu.program_counter = v.val])))))

\* a BRK entry that advances the clock before it pushes
interrupt_brk_tick_first(m) ==
    With(stack_push_u16(bus_tick(m, BRK_CYCLES), m.cpu.program_counter + 2),
         LAMBDA m1 :
    With(Insert(m1.cpu.status, BREAK), LAMBDA flag :
    With(ObservePush(stack_push(m1, flag), "brk", flag), LAMBDA m2 :
    With([m2 EXCEPT !.cpu.status = Insert(@, INTERRUPT_DISABLE)], LAMBDA m3 :
    With(mem_read_u16(m3, BRK_VECTOR), LAMBDA v :
    [v.m EXCEPT !.cpu.program_counter = v.val])))))

interrupt_brk(m) ==
    With(stack_push_u16(m, m.cpu.program_counter + 2), LAMBDA m1 :
    With(Insert(m1.cpu.status, BREAK), LAMBDA flag :
    With(ObservePush(stack_push(m1, flag), "brk", flag), LAMBDA m2 :
    With([m2 EXCEPT !.cpu.status = Insert(@, INTERRUPT_DISABLE)], LAMBDA m3 :
    With(mem_read_u16(bus_tick(m3, BRK_CYCLES), BRK_VECTOR), LAMBDA v :
    [v.m EXCEPT !.cpu.program_counter = v.val])))))

update_zero_and_negative_flags(m, result) ==
    [m EXCEPT !.cpu.status =
        SetFlag(SetFlag(@, ZERO, result = 0), NEGATIVE, result \div 128 = 1)]

branch(m, condition) ==
    IF condition
    THEN With(bus_tick(m, 1), LAMBDA m1 :
         With(mem_read(m1, m1.cpu.program_counter), LAMBDA r :
         With(IF r.val >= 128 THEN r.val - 256 ELSE r.val, LAMBDA jump :
         With(wrapping_add16(m1.cpu.program_counter, 1), LAMBDA next :
         With(wrapping_add16(next, (jump + 65536) % 65536), LAMBDA jump_addr :
         [(IF BitAnd(next, 65280) # BitAnd(jump_addr, 65280)
           THEN bus_tick(r.m, 1) ELSE r.m)
            EXCEPT !.cpu.program_counter = jump_addr])))))
    ELSE m

jmp_absolute(m) ==
    With(mem_read_u16(m, m.cpu.program_counter), LAMBDA addr :
    [addr.m EXCEPT !.cpu.program_counter = addr.val])

\* CPU::jump_indirect; the word at the pointer is read once before the test
\* of the low byte of the pointer and once more after it.  The u16 addition
\* of that first read overflows on the pointer $FFFF, which no run of the
\* model uses
jump_indirect(m) ==
    With(mem_read_u16(m, m.cpu.program_counter), LAMBDA mem_address :
    IF mem_address.val = 65535 THEN Fault(mem_address.m, "unmodelled")
    ELSE
    With(mem_read_u16(mem_address.m, mem_address.val), LAMBDA first :
    With(IF BitAnd(mem_address.val, 255) = 255
         THEN With(mem_read(first.m, mem_address.val), LAMBDA lo :
              With(mem_read(lo.m, BitAnd(mem_address.val, 65280)), LAMBDA hi :
              [m |-> hi.m, val |-> BitOr(hi.val * 256, lo.val)]))
         ELSE mem_read_u16(first.m, mem_address.val), LAMBDA indirect_ref :
    [indirect_ref.m EXCEPT !.cpu.program_counter = indirect_ref.val])))

jsr(m) ==
    With(stack_push_u16(m, m.cpu.program_counter + 2 - 1), LAMBDA m1 :
    With(mem_read_u16(m1, m1.cpu.program_counter), LAMBDA target_address :
    [target_address.m EXCEPT !.cpu.program_counter = target_address.val]))

pla(m) ==
    With(stack_pop(m), LAMBDA data :
    update_zero_and_negative_flags(
        [data.m EXCEPT !.cpu.register_a = data.val], data.val))

\* the u16 addition overflows on the popped word $FFFF, which no run of the
\* model has on its stack
rts(m) ==
    With(stack_pop_u16(m), LAMBDA v :
    IF v.val + 1 > 65535 THEN Fault(v.m, "unmodelled")
    ELSE [v.m EXCEPT !.cpu.program_counter = v.val + 1])

update_negative_flag(m, result) ==
    [m EXCEPT !.cpu.status = SetFlag(@, NEGATIVE, result \div 128 = 1)]

update_zero_flag(m, result) ==
    [m EXCEPT !.cpu.status = SetFlag(@, ZERO, result = 0)]

\* an addition that takes the overflow flag from the carry
add_with_carry_v_is_c(m, data) ==
    With(m.cpu.register_a + data + (IF Contains(m.cpu.status, CARRY) THEN 1 ELSE 0),
         LAMBDA sum :
    With(sum % 256, LAMBDA result :
    [m EXCEPT !.cpu.status = SetFlag(SetFlag(@, CARRY, sum > 255), OVERFLOW, sum > 255),
              !.cpu.register_a = result]))

add_with_carry(m, data) ==
    With(m.cpu.register_a + data + (IF Contains(m.cpu.status, CARRY) THEN 1 ELSE 0),
         LAMBDA sum :
    With(sum > 255, LAMBDA carry :
    With(sum % 256, LAMBDA result :
    [m EXCEPT !.cpu.status =
                 SetFlag(SetFlag(@, CARRY, carry), OVERFLOW,
                         BitAnd(BitAnd(BitXor(data, result),
                                       BitXor(result, m.cpu.register_a)), 128) # 0),
              !.cpu.register_a = result])))

adc(m, mode) ==
    With(get_operand_address(m, mode), LAMBDA o :
    With(mem_read(o.m, o.addr), LAMBDA result :
    With(add_with_carry(result.m, result.val), LAMBDA m1 :
    With(update_zero_and_negative_flags(m1, m1.cpu.register_a), LAMBDA m2 :
    IF o.cross THEN bus_tick(m2, 1) ELSE m2))))

\* u8 as i8, and the wrapping arithmetic of i8
as_i8(b) == IF b >= 128 THEN b - 256 ELSE b
wrap_i8(v) == ((v + 128 + 256) % 256) - 128
as_u8(v) == (v + 256) % 256

\* ((data as i8).wrapping_neg().wrapping_sub(1)) as u8
sbc_operand(data) == as_u8(wrap_i8(wrap_i8(-as_i8(data)) - 1))

sbc(m, mode) ==
    With(get_operand_address(m, mode), LAMBDA o :
    With(mem_read(o.m, o.addr), LAMBDA data :
    With(add_with_carry(data.m, sbc_operand(data.val)), LAMBDA m1 :
    With(update_zero_and_negative_flags(m1, m1.cpu.register_a), LAMBDA m2 :
    IF o.cross THEN bus_tick(m2, 1) ELSE m2))))

asl_accumulator(m) ==
    With(m.cpu.register_a, LAMBDA data :
    With([m EXCEPT !.cpu.status = SetFlag(@, CARRY, data \div 128 = 1),
                   !.cpu.register_a = (data * 2) % 256], LAMBDA m1 :
    update_zero_and_negative_flags(m1, m1.cpu.register_a)))

asl(m, mode) ==
    With(get_operand_address(m, mode), LAMBDA o :
    With(mem_read(o.m, o.addr), LAMBDA data :
    With([data.m EXCEPT !.cpu.status = SetFlag(@, CARRY, data.val \div 128 = 1)],
         LAMBDA m1 :
    update_zero_and_negative_flags(
        mem_write(m1, o.addr, (data.val * 2) % 256), (data.val * 2) % 256))))

lsr_accumulator(m) ==
    With(m.cpu.register_a, LAMBDA data :
    With([m EXCEPT !.cpu.status = SetFlag(@, CARRY, data % 2 = 1)], LAMBDA m1 :
    With(update_zero_flag(m1, data \div 2), LAMBDA m2 :
    [m2 EXCEPT !.cpu.status = Remove(@, NEGATIVE),
               !.cpu.register_a = data \div 2])))

lsr(m, mode) ==
    With(get_operand_address(m, mode), LAMBDA o :
    With(mem_read(o.m, o.addr), LAMBDA data :
    With([data.m EXCEPT !.cpu.status = SetFlag(@, CARRY, data.val % 2 = 1)],
         LAMBDA m1 :
    update_zero_and_negative_flags(
        mem_write(m1, o.addr, data.val \div 2), data.val \div 2))))

\* only the negative flag is updated from the result
rol_accumulator(m) ==
    With(m.cpu.register_a, LAMBDA data :
    With(Contains(m.cpu.status, CARRY), LAMBDA old_carry :
    With(((data * 2) % 256) + (IF old_carry THEN 1 ELSE 0), LAMBDA rotated :
    update_negative_flag(
        [m EXCEPT !.cpu.status = SetFlag(@, CARRY, data \div 128 = 1),
                  !.cpu.register_a = rotated], rotated))))

rol(m, mode) ==
    With(get_operand_address(m, mode), LAMBDA o :
    With(mem_read(o.m, o.addr), LAMBDA data :
    With(Contains(data.m.cpu.status, CARRY), LAMBDA old_carry :
    With(((data.val * 2) % 256) + (IF old_carry THEN 1 ELSE 0), LAMBDA rotated :
    With([data.m EXCEPT !.cpu.status = SetFlag(@, CARRY, data.val \div 128 = 1)],
         LAMBDA m1 :
    update_negative_flag(mem_write(m1, o.addr, rotated), rotated))))))

ror_accumulator(m) ==
    With(m.cpu.register_a, LAMBDA data :
    With(Contains(m.cpu.status, CARRY), LAMBDA old_carry :
    With((data \div 2) + (IF old_carry THEN 128 ELSE 0), LAMBDA rotated :
    update_zero_flag(
        [m EXCEPT !.cpu.status = SetFlag(SetFlag(@, CARRY, data % 2 = 1),
                                         NEGATIVE, old_carry),
                  !.cpu.register_a = rotated], rotated))))

ror(m, mode) ==
    With(get_operand_address(m, mode), LAMBDA o :
    With(mem_read(o.m, o.addr), LAMBDA data :
    With(Contains(data.m.cpu.status, CARRY), LAMBDA old_carry :
    With((data.val \div 2) + (IF old_carry THEN 128 ELSE 0), LAMBDA rotated :
    With([data.m EXCEPT !.cpu.status = SetFlag(@, CARRY, data.val % 2 = 1)],
         LAMBDA m1 :
    With(update_zero_flag(mem_write(m1, o.addr, rotated), rotated), LAMBDA m2 :
    [m2 EXCEPT !.cpu.status = SetFlag(@, NEGATIVE, old_carry)]))))))

ldy(m, mode) ==
    With(get_operand_address(m, mode), LAMBDA o :
    With(mem_read(o.m, o.addr), LAMBDA value :
    With(update_zero_and_negative_flags(
            [value.m EXCEPT !.cpu.register_y = value.val], value.val), LAMBDA m1 :
    IF o.cross THEN bus_tick(m1, 1) ELSE m1)))

dex(m) ==
    With(wrapping_sub8(m.cpu.register_x, 1), LAMBDA v :
    update_zero_and_negative_flags([m EXCEPT !.cpu.register_x = v], v))

dey(m) ==
    With(wrapping_sub8(m.cpu.register_y, 1), LAMBDA v :
    update_zero_and_negative_flags([m EXCEPT !.cpu.register_y = v], v))

inx(m) ==
    With(wrapping_add8(m.cpu.register_x, 1), LAMBDA v :
    update_zero_and_negative_flags([m EXCEPT !.cpu.register_x = v], v))

iny(m) ==
    With(wrapping_add8(m.cpu.register_y, 1), LAMBDA v :
    update_zero_and_negative_flags([m EXCEPT !.cpu.register_y = v], v))

tax(m) ==
    update_zero_and_negative_flags(
        [m EXCEPT !.cpu.register_x = m.cpu.register_a], m.cpu.register_a)

tay(m) ==
    update_zero_and_negative_flags(
        [m EXCEPT !.cpu.register_y = m.cpu.register_a], m.cpu.register_a)

tsx(m) ==
    update_zero_and_negative_flags(
        [m EXCEPT !.cpu.register_x = m.cpu.stack_pointer], m.cpu.stack_pointer)

txa(m) ==
    update_zero_and_negative_flags(
        [m EXCEPT !.cpu.register_a = m.cpu.register_x], m.cpu.register_x)

tya(m) ==
    update_zero_and_negative_flags(
        [m EXCEPT !.cpu.register_a = m.cpu.register_y], m.cpu.register_y)

\* CPU::axs; the two u8 additions panic on overflow in a build with overflow
\* checks and wrap in one without
axs(m, mode) ==
    With(get_operand_address(m, mode), LAMBDA o :
    With(mem_read(o.m, o.addr), LAMBDA data :
    With(BitAnd(data.m.cpu.register_a, data.m.cpu.register_x), LAMBDA and_ :
    IF data.m.obs.overflow_checks /\ BitXor(data.val, 255) + 1 > 255
    THEN Fault(data.m, AddOverflow)
    ELSE
    With((BitXor(data.val, 255) + 1) % 256, LAMBDA complement_data :
    IF data.m.obs.overflow_checks /\ and_ + complement_data > 255
    THEN Fault(data.m, AddOverflow)
    ELSE
    With((and_ + complement_data) % 256, LAMBDA difference :
    update_zero_and_negative_flags(
        [data.m EXCEPT !.cpu.status = SetFlag(@, CARRY, and_ >= complement_data),
                       !.cpu.register_x = difference], difference))))))

\* a PLP that loads the popped byte as it is
plp_raw(m) ==
    With(stack_pop(m), LAMBDA bits :
    [bits.m EXCEPT !.cpu.status = bits.val])

plp(m) ==
    With(stack_pop(m), LAMBDA bits :
    [bits.m EXCEPT !.cpu.status = Insert(Remove(bits.val, BREAK), BREAK2)])

rti(m) ==
    With(stack_pop(m), LAMBDA bits :
    With([bits.m EXCEPT !.cpu.status = Insert(Remove(bits.val, BREAK), BREAK2)],
         LAMBDA m1 :
    With(stack_pop_u16(m1), LAMBDA v :
    [v.m EXCEPT !.cpu.program_counter = v.val])))

lda(m, mode) ==
    With(get_operand_address(m, mode), LAMBDA o :
    With(mem_read(o.m, o.addr), LAMBDA value :
    With(update_zero_and_negative_flags(
            [value.m EXCEPT !.cpu.register_a = value.val], value.val), LAMBDA m1 :
    IF o.cross THEN bus_tick(m1, 1) ELSE m1)))

\* the flag update is commented out in the source
ldx(m, mode) ==
    With(get_operand_address(m, mode), LAMBDA o :
    With(mem_read(o.m, o.addr), LAMBDA value :
    With([value.m EXCEPT !.cpu.register_x = value.val], LAMBDA m1 :
    IF o.cross THEN bus_tick(m1, 1) ELSE m1)))

php(m) ==
    With(Insert(Insert(m.cpu.status, BREAK), BREAK2), LAMBDA flags :
    ObservePush(stack_push(m, flags), "php", flags))

sta(m, mode) ==
    With(get_operand_address(m, mode), LAMBDA o :
    mem_write(o.m, o.addr, o.m.cpu.register_a))

txs(m) == [m EXCEPT !.cpu.stack_pointer = m.cpu.register_x]

reset(m) ==
    With(mem_read_u16([m EXCEPT !.cpu.register_a = 0, !.cpu.register_x = 0,
                                !.cpu.register_y = 0, !.cpu.status = RESET_STATUS],
                      RESET_VECTOR), LAMBDA v :
    [v.m EXCEPT !.cpu.program_counter = v.val])

and(m, mode) ==
    With(get_operand_address(m, mode), LAMBDA o :
    With(mem_read(o.m, o.addr), LAMBDA value :
    With(BitAnd(value.m.cpu.register_a, value.val), LAMBDA result :
    With(update_zero_and_negative_flags(
            [value.m EXCEPT !.cpu.register_a = result], result), LAMBDA m1 :
    IF o.cross THEN bus_tick(m1, 1) ELSE m1))))

ora(m, mode) ==
    With(get_operand_address(m, mode), LAMBDA o :
    With(mem_read(o.m, o.addr), LAMBDA data :
    With(BitOr(data.val, data.m.cpu.register_a), LAMBDA result :
    With(update_zero_and_negative_flags(
            [data.m EXCEPT !.cpu.register_a = result], result), LAMBDA m1 :
    IF o.cross THEN bus_tick(m1, 1) ELSE m1))))

eor(m, mode) ==
    With(get_operand_address(m, mode), LAMBDA o :
    With(mem_read(o.m, o.addr), LAMBDA data :
    With(BitXor(data.val, data.m.cpu.register_a), LAMBDA result :
    With(update_zero_and_negative_flags(
            [data.m EXCEPT !.cpu.register_a = result], result), LAMBDA m1 :
    IF o.cross THEN bus_tick(m1, 1) ELSE m1))))

compare(m, mode, comparison) ==
    With(get_operand_address(m, mode), LAMBDA o :
    With(mem_read(o.m, o.addr), LAMBDA data :
    With(update_zero_and_negative_flags(
            [data.m EXCEPT !.cpu.status = SetFlag(@, CARRY, comparison >= data.val)],
            wrapping_sub8(comparison, data.val)), LAMBDA m1 :
    IF o.cross THEN bus_tick(m1, 1) ELSE m1)))

dec(m, mode) ==
    With(get_operand_address(m, mode), LAMBDA o :
    With(mem_read(o.m, o.addr), LAMBDA data :
    With(wrapping_sub8(data.val, 1), LAMBDA v :
    With(mem_write(data.m, o.addr, v), LAMBDA m1 :
    update_zero_and_negative_flags(m1, v)))))

inc(m, mode) ==
    With(get_operand_address(m, mode), LAMBDA o :
    With(mem_read(o.m, o.addr), LAMBDA data :
    With(wrapping_add8(data.val, 1), LAMBDA v :
    With(mem_write(data.m, o.addr, v), LAMBDA m1 :
    update_zero_and_negative_flags(m1, v)))))

\* the undocumented read-modify-write instructions: each calls the handlers
\* of two documented instructions, one after the other, with the same mode
dcp(m, mode) ==
    With(dec(m, mode), LAMBDA m1 : compare(m1, mode, m1.cpu.register_a))

isb(m, mode) == With(inc(m, mode), LAMBDA m1 : sbc(m1, mode))

rla(m, mode) == With(rol(m, mode), LAMBDA m1 : and(m1, mode))

rra(m, mode) == With(ror(m, mode), LAMBDA m1 : adc(m1, mode))

slo(m, mode) == With(asl(m, mode), LAMBDA m1 : ora(m1, mode))

sre(m, mode) == With(lsr(m, mode), LAMBDA m1 : eor(m1, mode))

\* the handler the match of run_with_callback selects for the opcode: the
\* arms of the loads, stores, stack and call instructions
dispatch(m, code, opcode) ==
    CASE code = 72 -> stack_push(m, m.cpu.register_a)
      [] code = 240 -> branch(m, Contains(m.cpu.status, ZERO))
      [] code = 208 -> branch(m, ~Contains(m.cpu.status, ZERO))
      [] code = 32 -> jsr(m)
      [] code = 104 -> pla(m)
      [] code = 96 -> rts(m)
      [] code \in {169, 173, 189} -> lda(m, opcode.mode)
      [] code = 162 -> ldx(m, opcode.mode)
      [] code = 234 -> m
      [] code = 8 -> php(m)
      [] code = 88 -> [m EXCEPT !.cpu.status = Remove(@, INTERRUPT_DISABLE)]
      [] code = 141 -> sta(m, opcode.mode)
      [] code = 154 -> txs(m)
      [] code = 0 -> interrupt_brk(m)
      [] OTHER -> Fault(m, "unmodelled")

\* the arms of the same match for jumps, branches, BRK, RTI and the stack
\* instructions around them
dispatch_flow(m, code, opcode) ==
    CASE code = 72 -> stack_push(m, m.cpu.register_a)
      [] code = 240 -> branch(m, Contains(m.cpu.status, ZERO))
      [] code = 208 -> branch(m, ~Contains(m.cpu.status, ZERO))
      [] code = 144 -> branch(m, ~Contains(m.cpu.status, CARRY))
      [] code = 176 -> branch(m, Contains(m.cpu.status, CARRY))
      [] code = 48 -> branch(m, Contains(m.cpu.status, NEGATIVE))
      [] code = 16 -> branch(m, ~Contains(m.cpu.status, NEGATIVE))
      [] code = 80 -> branch(m, ~Contains(m.cpu.status, OVERFLOW))
      [] code = 112 -> branch(m, Contains(m.cpu.status, OVERFLOW))
      [] code = 40 -> plp(m)
      [] code = 64 -> rti(m)
      [] code = 76 -> jmp_absolute(m)
      [] code = 108 -> jump_indirect(m)
      [] code = 32 -> jsr(m)
      [] code = 169 -> lda(m, opcode.mode)
      [] code = 0 -> interrupt_brk(m)
      [] OTHER -> Fault(m, "unmodelled")

\* the arms for ADC and SBC
dispatch_alu(m, code, opcode) ==
    CASE code \in {105, 101} -> adc(m, opcode.mode)
      [] code \in {233, 235, 229} -> sbc(m, opcode.mode)
      [] OTHER -> Fault(m, "unmodelled")

\* the arms for the shifts and rotates
dispatch_shift(m, code, opcode) ==
    CASE code = 10 -> asl_accumulator(m)
      [] code = 6 -> asl(m, opcode.mode)
      [] code = 74 -> lsr_accumulator(m)
      [] code = 70 -> lsr(m, opcode.mode)
      [] code = 42 -> rol_accumulator(m)
      [] code = 38 -> rol(m, opcode.mode)
      [] code = 106 -> ror_accumulator(m)
      [] code = 102 -> ror(m, opcode.mode)
      [] OTHER -> Fault(m, "unmodelled")

\* the arms for the loads, the register transfers, PLA, the increments and
\* decrements of X and Y, and AXS
dispatch_load(m, code, opcode) ==
    CASE code = 169 -> lda(m, opcode.mode)
      [] code = 162 -> ldx(m, opcode.mode)
      [] code = 160 -> ldy(m, opcode.mode)
      [] code = 104 -> pla(m)
      [] code = 202 -> dex(m)
      [] code = 136 -> dey(m)
      [] code = 232 -> inx(m)
      [] code = 200 -> iny(m)
      [] code = 170 -> tax(m)
      [] code = 168 -> tay(m)
      [] code = 186 -> tsx(m)
      [] code = 138 -> txa(m)
      [] code = 152 -> tya(m)
      [] code = 203 -> axs(m, opcode.mode)
      [] OTHER -> Fault(m, "unmodelled")

\* the opcodes no arm of the match names: ARR $6B; they reach `_ => todo!()`
TodoCodes == {107}

dispatch_todo(m, code, opcode) ==
    CASE code \in TodoCodes -> Fault(m, Unimplemented)
      [] OTHER -> Fault(m, "unmodelled")

\* the opcodes of SLO, RLA, SRE, RRA, DCP and ISB in the match
SloCodes == {7, 23, 15, 31, 27, 3, 19}
RlaCodes == {39, 55, 47, 63, 59, 35, 51}
SreCodes == {71, 87, 79, 95, 91, 67, 83}
RraCodes == {103, 119, 111, 127, 123, 99, 115}
DcpCodes == {199, 215, 207, 223, 219, 195, 211}
IsbCodes == {231, 247, 239, 255, 251, 227, 243}

\* the arms for the undocumented read-modify-write instructions
dispatch_rmw(m, code, opcode) ==
    CASE code \in DcpCodes -> dcp(m, opcode.mode)
      [] code \in IsbCodes -> isb(m, opcode.mode)
      [] code \in RlaCodes -> rla(m, opcode.mode)
      [] code \in RraCodes -> rra(m, opcode.mode)
      [] code \in SloCodes -> slo(m, opcode.mode)
      [] code \in SreCodes -> sre(m, opcode.mode)
      [] OTHER -> Fault(m, "unmodelled")

\* one pass of the loop body of CPU::run_with_callback from the trace hook
\* on: fetch, the arms of the match, base cycles, length adjustment
run_arms(m, arms(_, _, _)) ==
    With(mem_read(m, m.cpu.program_counter), LAMBDA code :
    With([code.m EXCEPT !.cpu.program_counter = @ + 1], LAMBDA m1 :
    IF code.val \notin DOMAIN OPCODES_MAP THEN Fault(m1, "unmodelled")
    ELSE
    With(OPCODES_MAP[code.val], LAMBDA opcode :
    With(arms(m1, code.val, opcode), LAMBDA m2 :
    IF IsPanic(m2.fault) THEN m2
    ELSE With(bus_tick(m2, opcode.cycles), LAMBDA m3 :
         IF m1.cpu.program_counter = m3.cpu.program_counter
         THEN [m3 EXCEPT !.cpu.program_counter = @ + (opcode.len - 1)]
         ELSE m3)))))

run_instruction(m) == run_arms(m, dispatch)

(***************************************************************************)
(* The state machine.  pos is the position of the run loop: "poll" before  *)
(* the NMI poll that opens an iteration, "fetch" before the opcode fetch,  *)
(* "aborted" after a panic.                                                *)
(***************************************************************************)
Machine ==
    [cpu |-> cpu, bus |-> bus, ppu |-> ppu,
     obs |-> [obs EXCEPT !.ticks = <<>>, !.pushed = <<>>, !.ctrl = <<>>,
                        !.status_read = <<>>, !.access = <<>>,
                        !.events = <<>>],
     fault |-> "none", fetch |-> [at |-> 0, bytes |-> <<>>]]

Commit(m, next_pos) ==
    /\ m.fault # "unmodelled"
    /\ cpu' = m.cpu
    /\ bus' = m.bus
    /\ ppu' = m.ppu
    /\ obs' = m.obs
    /\ pos' = IF IsPanic(m.fault) THEN "aborted" ELSE next_pos

\* the code bytes of the instruction at PC lie in PRG ROM below the vectors
CodeInRom ==
    /\ cpu.program_counter >= CARTRIDGE_ROM_START
    /\ cpu.program_counter + 2 < NMI_VECTOR
    /\ ((cpu.program_counter - CARTRIDGE_ROM_START) % bus.prg_len) + 2 < bus.prg_len - 6

\* lines 890-892 of run_with_callback: poll, and NMI entry when latched
PollNmi ==
    /\ pos = "poll"
    /\ \E r \in {poll_nmi_status([Machine EXCEPT !.obs.last_op = "poll"])} :
         \E m \in {IF r.val # None
                   THEN interrupt_nmi([r.m EXCEPT !.obs.last_op = "nmi"])
                   ELSE r.m} :
           Commit(m, "fetch")

\* lines 894-1260 of run_with_callback for the instruction whose bytes are
\* code, b1, b2; counted is what the step adds to the step count of the run
Step(code, b1, b2, counted) ==
    /\ pos = "fetch"
    /\ CodeInRom
    /\ \E m \in {run_instruction(
                   [Machine EXCEPT
                      !.fetch = [at |-> cpu.program_counter,
                                 bytes |-> SubSeq(<<code, b1, b2>>, 1, OPCODES_MAP[code].len)],
                      !.obs.last_op = OPCODES_MAP[code].mnemonic,
                      !.obs.steps = @ + counted])} :
         Commit(m, "poll")

\* the instructions a run of Spec executes
Budget == obs.steps < MaxSteps

ImmBytes == {0, 128}
StackBytes == {1}
ReadAddrs == {8194, 16378}
WriteAddrs == {8192, 16376, 8196, 8197, 8198}
BranchOffsets == {2, 253}
JsrTargets == {36864}
Lo(w) == w % 256
Hi(w) == w \div 256

Nop == Budget /\ Step(234, 0, 0, 1)
LdaImmediate == Budget /\ \E v \in ImmBytes : Step(169, v, 0, 1)
LdaAbsolute == Budget /\ \E a \in ReadAddrs : Step(173, Lo(a), Hi(a), 1)
LdaAbsoluteX == Budget /\ Step(189, 255, 1, 1)
LdxImmediate == Budget /\ \E v \in StackBytes : Step(162, v, 0, 1)
StaAbsolute == Budget /\ \E a \in WriteAddrs : Step(141, Lo(a), Hi(a), 1)
Txs == Budget /\ Step(154, 0, 0, 1)
Pha == Budget /\ Step(72, 0, 0, 1)
Php == Budget /\ Step(8, 0, 0, 1)
Cli == Budget /\ Step(88, 0, 0, 1)
Jsr == Budget /\ \E t \in JsrTargets : Step(32, Lo(t), Hi(t), 1)
Brk == Budget /\ Step(0, 0, 0, 1)
Beq == Budget /\ \E o \in BranchOffsets : Step(240, o, 0, 1)
Bne == Budget /\ \E o \in BranchOffsets : Step(208, o, 0, 1)

\* CPU::reset, called by the host between two loop iterations
Reset ==
    /\ pos = "poll"
    /\ Budget
    /\ \E m \in {reset([Machine EXCEPT !.obs.last_op = "reset", !.obs.steps = @ + 1])} :
         Commit(m, "poll")

(***************************************************************************)
(* Initial states: the machine as CPU::new, Bus::new and MyPPU::new build  *)
(* it and reset() starts it, observed at power-on or at a later point of   *)
(* the frame with the PPU flags that point allows.                         *)
(***************************************************************************)
FrameDots == DotsPerScanline * ScanlinesPerFrame
\* the least bus cycle count c with 3 * c = dots (mod FrameDots)
CyclesAt(dots) ==
    IF dots % 3 = 0 THEN dots \div 3
    ELSE IF (dots + FrameDots) % 3 = 0 THEN (dots + FrameDots) \div 3
    ELSE (dots + 2 * FrameDots) \div 3

Vectors(len) ==
    [o \in {len - 6, len - 5, len - 4, len - 3, len - 2, len - 1} |->
       CASE o = len - 6 -> 252   \* NMI   $80FC
         [] o = len - 5 -> 128
         [] o = len - 4 -> 0     \* RESET $8000
         [] o = len - 3 -> 128
         [] o = len - 2 -> 0     \* BRK   $A000
         [] o = len - 1 -> 160]

\* power-on; the end of the post-render line; inside vblank after the NMI poll;
\* the end of the pre-render line
Snapshots ==
    {[scanline |-> 0, cycles |-> 0, status |-> 0, control |-> 0, prg_len |-> len] :
        len \in {16384, 32768}}
    \cup {[scanline |-> 240, cycles |-> 330, status |-> 0, control |-> c,
           prg_len |-> 16384] : c \in {0, 128}}
    \cup {[scanline |-> 241, cycles |-> 12, status |-> 128, control |-> c,
           prg_len |-> 32768] : c \in {0, 128}}
    \cup {[scanline |-> 261, cycles |-> 333, status |-> 128, control |-> c,
           prg_len |-> 32768] : c \in {0, 128}}

\* the first state of a frame, with NMI-enable as an earlier frame left it
FrameStarts ==
    {[scanline |-> 0, cycles |-> 0, status |-> 0, control |-> c, prg_len |-> 32768] :
        c \in {0, 128}}

InitAt(snap) ==
    /\ cpu = [CPU_new EXCEPT !.program_counter = 32768]
    /\ bus = [cpu_vram |-> <<>>, prg_rom |-> Vectors(snap.prg_len),
              prg_len |-> snap.prg_len,
              cycles |-> CyclesAt(snap.scanline * DotsPerScanline + snap.cycles)]
    /\ ppu = [MyPPU_new EXCEPT !.scanline = snap.scanline, !.cycles = snap.cycles,
                               !.status = snap.status, !.control = snap.control]
    /\ obs = [Observer_new EXCEPT
                !.held = snap.scanline = 0 /\ snap.cycles = 0
                         /\ generate_vblank_nmi(snap.control)]
    /\ pos = "poll"

Init == \E snap \in Snapshots : InitAt(snap)

Next ==
    \/ PollNmi
    \/ Reset
    \/ Nop
    \/ LdaImmediate
    \/ LdaAbsolute
    \/ LdaAbsoluteX
    \/ LdxImmediate
    \/ StaAbsolute
    \/ Txs
    \/ Pha
    \/ Php
    \/ Cli
    \/ Jsr
    \/ Brk
    \/ Beq
    \/ Bne

Spec == Init /\ [][Next]_vars

(***************************************************************************)
(* SpecFrame: the run loop followed over whole frames.  The program idles  *)
(* on NOPs; in the first dots of the scanlines around the start and the    *)
(* end of vblank it may instead load A, write the Control port or read the *)
(* Status port.                                                            *)
(***************************************************************************)
BusyScanlines == {240, 241, 261}

Busy ==
    /\ ppu.scanline \in BusyScanlines
    /\ ppu.cycles < BusyDots

FrameBudget == obs.lines < MaxScanlines

FrameNop == FrameBudget /\ Step(234, 0, 0, 0)
FrameLda == FrameBudget /\ Busy /\ \E v \in ImmBytes : Step(169, v, 0, 0)
FrameWriteCtrl ==
    FrameBudget /\ Busy /\ obs.ctrl_writes < MaxCtrlWrites /\ Step(141, 0, 32, 0)
FrameReadStatus == FrameBudget /\ Busy /\ Step(173, 2, 32, 0)
FramePoll == FrameBudget /\ PollNmi

InitFrame == \E snap \in FrameStarts : InitAt(snap)

NextFrame ==
    \/ FramePoll
    \/ FrameNop
    \/ FrameLda
    \/ FrameWriteCtrl
    \/ FrameReadStatus

SpecFrame == InitFrame /\ [][NextFrame]_vars

(***************************************************************************)
(* SpecVram: the PPU address and data ports driven through Bus::mem_write  *)
(* and Bus::mem_read, as the stores and loads of a program reach them.     *)
(* No instruction is timed, so the PPU stays at its dot.  obs.access is    *)
(* the access of the last step, when the step is one the properties follow,*)
(* with the PPU values it found.                                           *)
(***************************************************************************)
Access(kind, addr, data, val, fault) ==
    [kind |-> kind, addr |-> addr, data |-> data, val |-> val, fault |-> fault,
     vram_addr |-> addr_get(ppu.addr), buffer |-> ppu.internal_buffer,
     oam_addr |-> ppu.oam_addr]

BusWrite(addr, data, seen, counted) ==
    \E m \in {mem_write([Machine EXCEPT !.obs.last_op = "write",
                                        !.obs.data_ops = @ + counted],
                         addr, data)} :
      Commit([m EXCEPT !.obs.access =
                 IF seen THEN Access("write", addr, data, 0, m.fault) ELSE <<>>],
             "poll")

BusRead(addr, seen, counted) ==
    \E r \in {mem_read([Machine EXCEPT !.obs.last_op = "read",
                                       !.obs.data_ops = @ + counted],
                        addr)} :
      Commit([r.m EXCEPT !.obs.access =
                 IF seen THEN Access("read", addr, 0, r.val, r.m.fault) ELSE <<>>],
             "poll")

\* the run loop is between two instructions and has not aborted
Running == pos = "poll"

AddrBytes == {0, 16, 32, 40, 63}
DataBytes == {90}
ChrImage == [a \in {0, 1, 16, 32, 4096} |-> (a % 200) + 17]

DataBudget == obs.data_ops < MaxDataOps

VramWriteAddr == Running /\ \E v \in AddrBytes : BusWrite(8198, v, FALSE, 0)
VramWriteData == Running /\ DataBudget /\ \E v \in DataBytes : BusWrite(8199, v, TRUE, 1)
VramReadData == Running /\ DataBudget /\ BusRead(8199, TRUE, 1)
VramReadStatus == Running /\ BusRead(8194, FALSE, 0)

\* power-on with the cartridge's mirroring and CHR bank, the VRAM increment
\* of Control as the program set it
VramStarts ==
    {[mirroring |-> mi, control |-> c] :
        mi \in {"VERTICAL", "HORIZONTAL", "FOUR_SCREEN"}, c \in {0, VRAM_ADD_INCREMENT}}

InitVram ==
    \E st \in VramStarts :
      /\ cpu = [CPU_new EXCEPT !.program_counter = 32768]
      /\ bus = [cpu_vram |-> <<>>, prg_rom |-> Vectors(32768), prg_len |-> 32768,
                cycles |-> 0]
      /\ ppu = [MyPPU_new EXCEPT !.mirroring = st.mirroring, !.control = st.control,
                                 !.chr_rom = ChrImage]
      /\ obs = Observer_new
      /\ pos = "poll"

NextVram ==
    \/ VramWriteAddr
    \/ VramWriteData
    \/ VramReadData
    \/ VramReadStatus

SpecVram == InitVram /\ [][NextVram]_vars

(***************************************************************************)
(* SpecBus: work RAM and PRG ROM driven through Bus::mem_write and         *)
(* Bus::mem_read.                                                          *)
(***************************************************************************)
\* the first and the last cell of work RAM in their four images
RamAddrs == {c + k * RAM_SIZE : c \in {0, RAM_SIZE - 1}, k \in 0..3}
RamBytes == {90, 165}
\* the first byte and the NMI vector of PRG ROM, in both halves of the window
RomAddrs == {32768, 49152, 49146, 65530}

RamWrite == Running /\ \E a \in RamAddrs : \E v \in RamBytes : BusWrite(a, v, TRUE, 0)
RamRead == Running /\ \E a \in RamAddrs : BusRead(a, TRUE, 0)
RomWrite == Running /\ \E a \in RomAddrs : \E v \in RamBytes : BusWrite(a, v, TRUE, 0)
RomRead == Running /\ \E a \in RomAddrs : BusRead(a, TRUE, 0)

InitBus ==
    \E len \in {16384, 32768} :
      /\ cpu = [CPU_new EXCEPT !.program_counter = 32768]
      /\ bus = [cpu_vram |-> <<>>, prg_rom |-> Vectors(len), prg_len |-> len,
                cycles |-> 0]
      /\ ppu = MyPPU_new
      /\ obs = Observer_new
      /\ pos = "poll"

NextBus ==
    \/ RamWrite
    \/ RamRead
    \/ RomWrite
    \/ RomRead

SpecBus == InitBus /\ [][NextBus]_vars

(***************************************************************************)
(* SpecDma: OAM DMA from work RAM.  The program fills cells of work RAM,   *)
(* sets the OAM address and writes the source page to $4014.               *)
(***************************************************************************)
\* the first cell of page 0 and the last cell of page 7 of work RAM
DmaCells == {0, 2047}
OamAddrs == {0, 254}
\* source pages: the first and the last page of work RAM, and the last page
\* in the second image of work RAM
DmaPages == {0, 7, 15}

DmaRamWrite == Running /\ \E a \in DmaCells : \E v \in RamBytes : BusWrite(a, v, FALSE, 0)
OamAddrWrite == Running /\ \E v \in OamAddrs : BusWrite(8195, v, FALSE, 0)
OamDma == Running /\ \E v \in DmaPages : BusWrite(16404, v, TRUE, 0)

NextDma ==
    \/ DmaRamWrite
    \/ OamAddrWrite
    \/ OamDma

SpecDma == InitBus /\ [][NextDma]_vars

(***************************************************************************)
(* SpecDmaRegs: OAM DMA whose source page lies in the window of the PPU    *)
(* registers ($2000-$3FFF) or in work RAM, at power-on and during vblank,  *)
(* with the VRAM address as writes to $2006 left it.                       *)
(***************************************************************************)
\* $4014 writes per run of SpecDmaRegs
MaxDmaOps == 2
\* source pages: the first and the last page of the register window
DmaRegPages == {32, 63}
DmaRamPages == {0, 7}
\* power-on, and the twelfth dot of the first vblank scanline
DmaStarts ==
    {[scanline |-> 0, cycles |-> 0, status |-> 0, control |-> 0, prg_len |-> 32768],
     [scanline |-> 241, cycles |-> 12, status |-> 128, control |-> 0, prg_len |-> 32768]}

DmaBudget == obs.data_ops < MaxDmaOps

DmaSetVramAddr == Running /\ \E v \in AddrBytes : BusWrite(8198, v, FALSE, 0)
DmaSetOamAddr == Running /\ \E v \in OamAddrs : BusWrite(8195, v, FALSE, 0)
DmaFromRam == Running /\ DmaBudget /\ \E v \in DmaRamPages : BusWrite(16404, v, TRUE, 1)
DmaFromRegs == Running /\ DmaBudget /\ \E v \in DmaRegPages : BusWrite(16404, v, TRUE, 1)

InitDmaRegs == \E snap \in DmaStarts : InitAt(snap)

NextDmaRegs ==
    \/ DmaSetVramAddr
    \/ DmaSetOamAddr
    \/ DmaFromRam
    \/ DmaFromRegs

SpecDmaRegs == InitDmaRegs /\ [][NextDmaRegs]_vars

(***************************************************************************)
(* SpecStack: the run loop on pushes, pulls, calls and returns, started    *)
(* with the stack pointer where reset leaves it or where a TXS has put it. *)
(* obs.access is the instruction of the last step with the registers it    *)
(* found.                                                                  *)
(***************************************************************************)
ExecArms(arms(_, _, _), code, b1, b2) ==
    /\ pos = "fetch"
    /\ CodeInRom
    /\ \E m \in {run_arms(
                   [Machine EXCEPT
                      !.fetch = [at |-> cpu.program_counter,
                                 bytes |-> SubSeq(<<code, b1, b2>>, 1, OPCODES_MAP[code].len)],
                      !.obs.last_op = OPCODES_MAP[code].mnemonic,
                      !.obs.steps = @ + 1], arms)} :
         Commit([m EXCEPT !.obs.access =
                    [kind |-> "exec", code |-> code, operand |-> b1 + 256 * b2,
                     pc |-> cpu.program_counter, sp |-> cpu.stack_pointer,
                     a |-> cpu.register_a, x |-> cpu.register_x,
                     y |-> cpu.register_y, status |-> cpu.status,
                     cycles |-> bus.cycles, ram |-> bus.cpu_vram]],
                "poll")

Exec(code, b1, b2) == ExecArms(dispatch, code, b1, b2)

StackBudget == obs.steps < MaxStackSteps

StackStarts == {STACK_RESET, 0, 1, 255}
PushBytes == {90, 255}
\* a subroutine at $9000, and the address of the JSR's own operand
CallTargets == {36864, cpu.program_counter + 1}

StackPoll == StackBudget /\ PollNmi
StackLda == StackBudget /\ \E v \in PushBytes : Exec(169, v, 0)
StackPha == StackBudget /\ Exec(72, 0, 0)
StackPla == StackBudget /\ Exec(104, 0, 0)
StackJsr == StackBudget /\ \E t \in CallTargets : Exec(32, Lo(t), Hi(t))
StackRts == StackBudget /\ Exec(96, 0, 0)

InitStack ==
    \E sp \in StackStarts :
      /\ cpu = [CPU_new EXCEPT !.program_counter = 32768, !.stack_pointer = sp]
      /\ bus = [cpu_vram |-> <<>>, prg_rom |-> Vectors(32768), prg_len |-> 32768,
                cycles |-> 0]
      /\ ppu = MyPPU_new
      /\ obs = Observer_new
      /\ pos = "poll"

NextStack ==
    \/ StackPoll
    \/ StackLda
    \/ StackPha
    \/ StackPla
    \/ StackJsr
    \/ StackRts

SpecStack == InitStack /\ [][NextStack]_vars

(***************************************************************************)
(* SpecFlow: the run loop on jumps, calls, branches, BRK and the pulls of  *)
(* the status register.  Work RAM starts with two pointers for JMP         *)
(* indirect and with three bytes a program has left on the stack.          *)
(***************************************************************************)
FlowBudget == obs.steps < MaxFlowSteps

\* a branch whose following instruction is in the page of its target for
\* short offsets, and one near the end of a page
FlowStarts == {32768, 33008}

\* $0010 holds the word $8001; $02FF, $0200 and $0300 the bytes $34, $90 and
\* $A0; $01FE the status byte $DB (BREAK set, BREAK2 and INTERRUPT_DISABLE
\* clear), and $01FF and $0100, which a pull at SP = $FE reads next, the
\* word $9000
FlowRam ==
    [a \in {16, 17, 767, 512, 768, 510, 256} |->
       CASE a = 16 -> 1
         [] a = 17 -> 128
         [] a = 767 -> 52
         [] a = 512 -> 144
         [] a = 768 -> 160
         [] a = 510 -> 219
         [] a = 256 -> 144]

FlowBytes == {0, 16, 207}
FlowTargets == {36864, cpu.program_counter + 1}
FlowPointers == {16, 767, 65532}
FlowOffsets == {0, 255, 128, 127, 253}

FlowPoll == FlowBudget /\ PollNmi
FlowLda == FlowBudget /\ \E v \in FlowBytes : ExecArms(dispatch_flow, 169, v, 0)
FlowPha == FlowBudget /\ ExecArms(dispatch_flow, 72, 0, 0)
FlowPlp == FlowBudget /\ ExecArms(dispatch_flow, 40, 0, 0)
FlowRti == FlowBudget /\ ExecArms(dispatch_flow, 64, 0, 0)
FlowBrk == FlowBudget /\ ExecArms(dispatch_flow, 0, 0, 0)
FlowJmp == FlowBudget /\ \E t \in FlowTargets : ExecArms(dispatch_flow, 76, Lo(t), Hi(t))
FlowJmpIndirect == FlowBudget /\ \E q \in FlowPointers : ExecArms(dispatch_flow, 108, Lo(q), Hi(q))
FlowJsr == FlowBudget /\ \E t \in FlowTargets : ExecArms(dispatch_flow, 32, Lo(t), Hi(t))
\* CPU::reset, called by the host between two loop iterations
FlowReset ==
    /\ pos = "poll"
    /\ FlowBudget
    /\ \E m \in {reset([Machine EXCEPT !.obs.last_op = "reset", !.obs.steps = @ + 1])} :
         Commit(m, "poll")
FlowBeq == FlowBudget /\ \E o \in FlowOffsets : ExecArms(dispatch_flow, 240, o, 0)
FlowBne == FlowBudget /\ \E o \in FlowOffsets : ExecArms(dispatch_flow, 208, o, 0)

InitFlow ==
    \E start \in FlowStarts :
      /\ cpu = [CPU_new EXCEPT !.program_counter = start]
      /\ bus = [cpu_vram |-> FlowRam, prg_rom |-> Vectors(32768), prg_len |-> 32768,
                cycles |-> 0]
      /\ ppu = MyPPU_new
      /\ obs = Observer_new
      /\ pos = "poll"

NextFlow ==
    \/ FlowPoll
    \/ FlowLda
    \/ FlowPha
    \/ FlowPlp
    \/ FlowRti
    \/ FlowBrk
    \/ FlowJmp
    \/ FlowJmpIndirect
    \/ FlowJsr
    \/ FlowBeq
    \/ FlowBne
    \/ FlowReset

SpecFlow == InitFlow /\ [][NextFlow]_vars

(***************************************************************************)
(* SpecAlu: ADC and SBC executed by the run loop from every accumulator,   *)
(* with the carry clear or set and the other arithmetic flags clear or     *)
(* set.  Zero-page cell $10 holds the operand $80.                         *)
(***************************************************************************)
AluBudget == obs.steps < MaxAluSteps

\* P after reset, with CARRY, and with ZERO, OVERFLOW and NEGATIVE
AluStatus == {RESET_STATUS, RESET_STATUS + 1, RESET_STATUS + 194, RESET_STATUS + 195}
AluOperands == {0, 1, 127, 128, 255}

AluPoll == AluBudget /\ PollNmi
AluAdc == AluBudget /\ \E v \in AluOperands : ExecArms(dispatch_alu, 105, v, 0)
AluSbc == AluBudget /\ \E v \in AluOperands : ExecArms(dispatch_alu, 233, v, 0)
AluSbcAlias == AluBudget /\ \E v \in AluOperands : ExecArms(dispatch_alu, 235, v, 0)
AluAdcZeroPage == AluBudget /\ ExecArms(dispatch_alu, 101, 16, 0)
AluSbcZeroPage == AluBudget /\ ExecArms(dispatch_alu, 229, 16, 0)

InitAlu ==
    \E a \in 0..255 : \E p \in AluStatus :
      /\ cpu = [CPU_new EXCEPT !.program_counter = 32768, !.register_a = a,
                               !.status = p]
      /\ bus = [cpu_vram |-> [c \in {16} |-> 128], prg_rom |-> Vectors(32768),
                prg_len |-> 32768, cycles |-> 0]
      /\ ppu = MyPPU_new
      /\ obs = Observer_new
      /\ pos = "poll"

NextAlu ==
    \/ AluPoll
    \/ AluAdc
    \/ AluSbc
    \/ AluSbcAlias
    \/ AluAdcZeroPage
    \/ AluSbcZeroPage

SpecAlu == InitAlu /\ [][NextAlu]_vars

(***************************************************************************)
(* SpecRegs: the run loop on shifts and rotates, loads, transfers,         *)
(* increments and AXS, from registers and flags as earlier instructions    *)
(* may have left them, in a build with and in one without overflow checks. *)
(* Zero-page cell $10 holds the operand of the memory forms; $01FE, under  *)
(* the stack pointer, holds the byte $80.                                  *)
(***************************************************************************)
RegBudget == obs.steps < MaxRegSteps

RegStarts ==
    {[a |-> 0, x |-> 0, y |-> 0, cell |-> 64],
     [a |-> 128, x |-> 255, y |-> 1, cell |-> 128],
     [a |-> 255, x |-> 5, y |-> 255, cell |-> 1],
     [a |-> 1, x |-> 127, y |-> 128, cell |-> 255],
     [a |-> 127, x |-> 128, y |-> 0, cell |-> 127]}
RegOperands == {0, 3, 128, 255}

RegPoll == RegBudget /\ PollNmi
AslAccumulator == RegBudget /\ ExecArms(dispatch_shift, 10, 0, 0)
LsrAccumulator == RegBudget /\ ExecArms(dispatch_shift, 74, 0, 0)
RolAccumulator == RegBudget /\ ExecArms(dispatch_shift, 42, 0, 0)
RorAccumulator == RegBudget /\ ExecArms(dispatch_shift, 106, 0, 0)
AslZeroPage == RegBudget /\ ExecArms(dispatch_shift, 6, 16, 0)
LsrZeroPage == RegBudget /\ ExecArms(dispatch_shift, 70, 16, 0)
RolZeroPage == RegBudget /\ ExecArms(dispatch_shift, 38, 16, 0)
RorZeroPage == RegBudget /\ ExecArms(dispatch_shift, 102, 16, 0)
RegLda == RegBudget /\ \E v \in RegOperands : ExecArms(dispatch_load, 169, v, 0)
RegLdx == RegBudget /\ \E v \in RegOperands : ExecArms(dispatch_load, 162, v, 0)
RegLdy == RegBudget /\ \E v \in RegOperands : ExecArms(dispatch_load, 160, v, 0)
Tax == RegBudget /\ ExecArms(dispatch_load, 170, 0, 0)
Tay == RegBudget /\ ExecArms(dispatch_load, 168, 0, 0)
Txa == RegBudget /\ ExecArms(dispatch_load, 138, 0, 0)
Tya == RegBudget /\ ExecArms(dispatch_load, 152, 0, 0)
Tsx == RegBudget /\ ExecArms(dispatch_load, 186, 0, 0)
RegPla == RegBudget /\ ExecArms(dispatch_load, 104, 0, 0)
Inx == RegBudget /\ ExecArms(dispatch_load, 232, 0, 0)
Iny == RegBudget /\ ExecArms(dispatch_load, 200, 0, 0)
Dex == RegBudget /\ ExecArms(dispatch_load, 202, 0, 0)
Dey == RegBudget /\ ExecArms(dispatch_load, 136, 0, 0)
Axs == RegBudget /\ \E v \in RegOperands : ExecArms(dispatch_load, 203, v, 0)
Arr == RegBudget /\ \E v \in RegOperands : ExecArms(dispatch_todo, 107, v, 0)

InitRegs ==
    \E start \in RegStarts : \E p \in AluStatus : \E checks \in BOOLEAN :
      /\ cpu = [CPU_new EXCEPT !.program_counter = 32768, !.register_a = start.a,
                               !.register_x = start.x, !.register_y = start.y,
                               !.status = p]
      /\ bus = [cpu_vram |-> [c \in {16, 510} |-> IF c = 16 THEN start.cell ELSE 128],
                prg_rom |-> Vectors(32768), prg_len |-> 32768, cycles |-> 0]
      /\ ppu = MyPPU_new
      /\ obs = [Observer_new EXCEPT !.overflow_checks = checks]
      /\ pos = "poll"

NextRegs ==
    \/ RegPoll
    \/ AslAccumulator
    \/ LsrAccumulator
    \/ RolAccumulator
    \/ RorAccumulator
    \/ AslZeroPage
    \/ LsrZeroPage
    \/ RolZeroPage
    \/ RorZeroPage
    \/ RegLda
    \/ RegLdx
    \/ RegLdy
    \/ Tax
    \/ Tay
    \/ Txa
    \/ Tya
    \/ Tsx
    \/ RegPla
    \/ Inx
    \/ Iny
    \/ Dex
    \/ Dey
    \/ Axs
    \/ Arr

SpecRegs == InitRegs /\ [][NextRegs]_vars

(***************************************************************************)
(* SpecRmw: the run loop on the undocumented read-modify-write             *)
(* instructions SLO, RLA, SRE, RRA, DCP and ISB in their seven addressing  *)
(* modes.  Zero page holds a pointer at $10 to $0010, its own address, and *)
(* a pointer at $20 to the cell $0300; X is 0 or $10 and Y is 0 or 1.      *)
(***************************************************************************)
RmwBudget == obs.steps < MaxRmwSteps

RmwRam == [c \in {16, 32, 33, 768} |->
             CASE c = 16 -> 16 [] c = 32 -> 0 [] c = 33 -> 3 [] c = 768 -> 65]
RmwStarts ==
    {[a |-> 15, x |-> 0, y |-> 0], [a |-> 240, x |-> 16, y |-> 1]}

\* operands: the zero-page addresses $00, $10, $20 of the two-byte forms,
\* the addresses $0010 and $0300 of the three-byte forms
RmwOperands(code) ==
    IF OPCODES_MAP[code].len = 2 THEN {0, 16, 32} ELSE {16, 768}

RmwPoll == RmwBudget /\ PollNmi
Slo == RmwBudget /\ \E code \in SloCodes : \E q \in RmwOperands(code) :
         ExecArms(dispatch_rmw, code, Lo(q), Hi(q))
Rla == RmwBudget /\ \E code \in RlaCodes : \E q \in RmwOperands(code) :
         ExecArms(dispatch_rmw, code, Lo(q), Hi(q))
Sre == RmwBudget /\ \E code \in SreCodes : \E q \in RmwOperands(code) :
         ExecArms(dispatch_rmw, code, Lo(q), Hi(q))
Rra == RmwBudget /\ \E code \in RraCodes : \E q \in RmwOperands(code) :
         ExecArms(dispatch_rmw, code, Lo(q), Hi(q))
Dcp == RmwBudget /\ \E code \in DcpCodes : \E q \in RmwOperands(code) :
         ExecArms(dispatch_rmw, code, Lo(q), Hi(q))
Isb == RmwBudget /\ \E code \in IsbCodes : \E q \in RmwOperands(code) :
         ExecArms(dispatch_rmw, code, Lo(q), Hi(q))

InitRmw ==
    \E start \in RmwStarts : \E carry \in {0, 1} :
      /\ cpu = [CPU_new EXCEPT !.program_counter = 32768, !.register_a = start.a,
                               !.register_x = start.x, !.register_y = start.y,
                               !.status = RESET_STATUS + carry]
      /\ bus = [cpu_vram |-> RmwRam, prg_rom |-> Vectors(32768), prg_len |-> 32768,
                cycles |-> 0]
      /\ ppu = MyPPU_new
      /\ obs = Observer_new
      /\ pos = "poll"

NextRmw ==
    \/ RmwPoll
    \/ Slo
    \/ Rla
    \/ Sre
    \/ Rra
    \/ Dcp
    \/ Isb

SpecRmw == InitRmw /\ [][NextRmw]_vars

(***************************************************************************)
(* Properties.                                                             *)
(***************************************************************************)
\* the little-endian word the bus returns at addr (an interrupt vector)
VectorWord(addr) == mem_read_u16(Machine, addr).val

\* C1: in the run loop, a step from the poll to the fetch with the NMI latch
\* set is the NMI entry, whatever INTERRUPT_DISABLE holds, and no opcode is
\* executed in it; with the latch empty the step enters nothing; the latch is
\* empty after the poll, so the fetch that follows never sees a latch that
\* was already served.
C1_NmiBeforeFetch ==
    [][/\ (pos = "poll" /\ pos' = "fetch") =>
            /\ ppu'.nmi_interrupt = None
            /\ obs'.steps = obs.steps
            /\ IF ppu.nmi_interrupt # None
               THEN /\ obs'.last_op = "nmi"
                    /\ obs'.pushed # <<>>
                    /\ cpu'.program_counter = VectorWord(NMI_VECTOR)
               ELSE /\ obs'.last_op = "poll"
                    /\ cpu' = cpu
       /\ (pos = "fetch" /\ pos' # "fetch") =>
            /\ ppu.nmi_interrupt = None
            /\ obs'.last_op \notin {"nmi", "poll"}]_vars

\* an NMI entered while INTERRUPT_DISABLE was set
C1_Witness ==
    /\ pos = "fetch"
    /\ obs.last_op = "nmi"
    /\ Contains(obs.pushed.byte, INTERRUPT_DISABLE)
    /\ ppu.nmi_interrupt = None

\* C2: NMI entry writes the high byte of PC at $0100+SP, the low byte at
\* $0100+((SP-1) mod 256) and the image of the status at $0100+((SP-2) mod
\* 256), leaves SP decreased by 3 modulo 256, sets INTERRUPT_DISABLE, adds
\* exactly 2 cycles to the bus, loads PC from the word at $FFFA and leaves
\* A, X and Y as they were.  (Bits 4 and 5 of the image are the subject of C3.)
C2_NmiEntry ==
    [][(pos = "poll" /\ pos' = "fetch" /\ ppu.nmi_interrupt # None) =>
         /\ ArrRead(bus'.cpu_vram, STACK + cpu.stack_pointer) = Hi(cpu.program_counter)
         /\ ArrRead(bus'.cpu_vram, STACK + wrapping_sub8(cpu.stack_pointer, 1))
              = Lo(cpu.program_counter)
         /\ ArrRead(bus'.cpu_vram, STACK + wrapping_sub8(cpu.stack_pointer, 2))
              = obs'.pushed.byte
         /\ Remove(Remove(obs'.pushed.byte, BREAK), BREAK2)
              = Remove(Remove(cpu.status, BREAK), BREAK2)
         /\ cpu'.stack_pointer = wrapping_sub8(cpu.stack_pointer, 3)
         /\ Contains(cpu'.status, INTERRUPT_DISABLE)
         /\ bus'.cycles = bus.cycles + 2
         /\ cpu'.program_counter = VectorWord(NMI_VECTOR)
         /\ cpu'.register_a = cpu.register_a
         /\ cpu'.register_x = cpu.register_x
         /\ cpu'.register_y = cpu.register_y]_vars

\* an NMI entered with SP = 1: the three pushes wrap around the stack page
C2_Witness ==
    /\ obs.last_op = "nmi"
    /\ cpu.stack_pointer = 254
    /\ cpu.register_x = 1
    /\ ArrRead(bus.cpu_vram, STACK + 1) = Hi(32768)

\* C3: every pushed image of P has bit 5 (BREAK2) set; bit 4 (BREAK) is set
\* in the image PHP and BRK push and clear in the image NMI entry pushes.
C3_PushedStatus ==
    obs.pushed # <<>> =>
        /\ Contains(obs.pushed.byte, BREAK2)
        /\ (obs.pushed.cause \in {"php", "brk"} => Contains(obs.pushed.byte, BREAK))
        /\ (obs.pushed.cause = "nmi" => ~Contains(obs.pushed.byte, BREAK))

\* C4: after reset() A = X = Y = 0, P = 0b00100100, SP = $FD and PC is the
\* word at $FFFC, whatever the state reset() was called in.
C4_ResetState ==
    obs.last_op = "reset" =>
        /\ cpu.register_a = 0
        /\ cpu.register_x = 0
        /\ cpu.register_y = 0
        /\ cpu.status = 36
        /\ cpu.stack_pointer = 253
        /\ cpu.program_counter = VectorWord(RESET_VECTOR)

\* a Bus::tick call in which the NMI latch went from empty to set
TickRose(e) == e.pre.nmi_interrupt = None /\ e.post.nmi_interrupt # None

\* a MyPPU::tick call in which the scanline counter goes from 240 to 241
TickEnters241(e) ==
    e.pre.scanline + 1 = VblankScanline /\ e.pre.cycles + 3 * e.n >= DotsPerScanline

\* a MyPPU::tick call in which the scanline counter would reach 262
TickWraps(e) ==
    e.pre.scanline + 1 = ScanlinesPerFrame /\ e.pre.cycles + 3 * e.n >= DotsPerScanline

\* C5: the frame callback runs in exactly the Bus::tick calls in which the
\* latch goes from empty to set, these are the calls that reach scanline 241
\* with NMI-enable set, and between two frame wraps there is at most one: a
\* frame has one callback if its latch rose in a tick and none otherwise.
C5_FrameCallback ==
    /\ \A i \in DOMAIN obs.ticks :
         /\ obs.ticks[i].callback <=> TickRose(obs.ticks[i])
         /\ TickRose(obs.ticks[i]) <=>
              (TickEnters241(obs.ticks[i])
               /\ generate_vblank_nmi(obs.ticks[i].pre.control))
    /\ obs.callbacks = obs.tick_rises
    /\ obs.callbacks = obs.vblank_nmi_ticks
    /\ obs.callbacks <= 1
    /\ obs.last_frame.callbacks = obs.last_frame.tick_rises
    /\ obs.last_frame.callbacks = obs.last_frame.vblank_nmi_ticks
    /\ obs.last_frame.callbacks <= 1

\* a whole frame with its one callback and its one NMI entry, in which the
\* program also wrote the Control port
C5_Witness ==
    /\ obs.last_frame.complete
    /\ obs.last_frame.callbacks = 1
    /\ obs.last_frame.nmi_entries = 1
    /\ obs.ctrl_writes > 0

\* C6: in a frame in which NMI-enable was set from scanline 0 to the wrap,
\* the latch rose exactly once and the CPU entered the NMI sequence exactly
\* once.
C6_OneNmiPerHeldFrame ==
    (obs.last_frame.complete /\ obs.last_frame.held) =>
        /\ obs.last_frame.rises = 1
        /\ obs.last_frame.nmi_entries = 1

\* such a frame, in which the program wrote the Control port again
C6_Witness ==
    /\ obs.last_frame.complete
    /\ obs.last_frame.held
    /\ obs.ctrl_writes > 0
    /\ obs.last_frame.nmi_entries = 1

\* dots one MyPPU::tick call can be given: three per CPU cycle for 1 to 8
\* cycles, and the largest value of its u8 parameter
TickDots == {3 * c : c \in 1..8} \cup {255}

\* C7: after every Bus::tick the scanline counter is in [0, 261] and the dot
\* counter in [0, 340]; so it is after any further tick from a reachable
\* state, whatever the cycle count of the opcode.
C7_CountersInRange ==
    /\ \A i \in DOMAIN obs.ticks :
         /\ obs.ticks[i].post.scanline \in 0..261
         /\ obs.ticks[i].post.cycles \in 0..340
    /\ ppu.scanline \in 0..261
    /\ ppu.cycles \in 0..340
    /\ \A n \in TickDots : \A r \in {ppu_tick(ppu, n)} :
         /\ r.ppu.scanline \in 0..261
         /\ r.ppu.cycles \in 0..340

\* a taken branch whose ticks carry the PPU over the end of the frame
C7_Witness ==
    /\ Len(obs.ticks) >= 2
    /\ \E i \in DOMAIN obs.ticks :
         obs.ticks[i].ret /\ obs.ticks[i].pre.scanline = 261
         /\ obs.ticks[i].post.scanline = 0

\* C8: MyPPU::tick sets vblank on the call that takes the scanline counter
\* from 240 to 241 and latches an NMI on it iff Control bit 7 is set; on the
\* call on which the counter would reach 262 it sets the scanline to 0,
\* clears vblank, sprite-zero hit and the latch and returns true; every other
\* call returns false and leaves vblank, sprite-zero hit and the latch alone.
C8_TickLaw ==
    \A i \in DOMAIN obs.ticks :
        LET e == obs.ticks[i]
        IN  /\ TickEnters241(e) =>
                 /\ e.post.scanline = 241
                 /\ is_in_vblank(e.post.status)
                 /\ ~is_in_vblank(e.pre.status)
                 /\ ~e.ret
                 /\ e.post.nmi_interrupt =
                      IF generate_vblank_nmi(e.pre.control)
                      THEN Some(1) ELSE e.pre.nmi_interrupt
                 /\ generate_vblank_nmi(e.pre.control) <=> TickRose(e)
            /\ TickWraps(e) =>
                 /\ e.post.scanline = 0
                 /\ ~is_in_vblank(e.post.status)
                 /\ ~Contains(e.post.status, SPRITE_ZERO_HIT)
                 /\ e.post.nmi_interrupt = None
                 /\ e.ret
            /\ (~TickEnters241(e) /\ ~TickWraps(e)) =>
                 /\ ~e.ret
                 /\ e.post.status = e.pre.status
                 /\ e.post.nmi_interrupt = e.pre.nmi_interrupt

\* the tick that reaches scanline 241 with NMI-enable set
C8_Witness ==
    \E i \in DOMAIN obs.ticks :
        /\ TickEnters241(obs.ticks[i])
        /\ generate_vblank_nmi(obs.ticks[i].pre.control)
        /\ obs.ticks[i].post.nmi_interrupt = Some(1)

\* NMI-enable goes from 0 to 1 in a Control write made while vblank is set
CtrlEdgeInVblank(w) ==
    /\ ~generate_vblank_nmi(w.pre.control)
    /\ generate_vblank_nmi(w.post.control)
    /\ is_in_vblank(w.pre.status)

\* C9: a write to the Control port stores the byte and latches an NMI iff
\* NMI-enable was 0 before, is 1 after and vblank is set; otherwise it
\* leaves the latch as it was.
C9_CtrlWriteLatch ==
    obs.ctrl # <<>> =>
        /\ obs.ctrl.post.control = obs.ctrl.value
        /\ obs.ctrl.post.status = obs.ctrl.pre.status
        /\ obs.ctrl.post.nmi_interrupt =
             IF CtrlEdgeInVblank(obs.ctrl) THEN Some(1) ELSE obs.ctrl.pre.nmi_interrupt

\* a Control write that latches
C9_Witness ==
    /\ obs.ctrl # <<>>
    /\ CtrlEdgeInVblank(obs.ctrl)
    /\ obs.ctrl.pre.nmi_interrupt = None
    /\ obs.ctrl.post.nmi_interrupt = Some(1)

\* C10: a read of $2002 returns the status as it was before the read, clears
\* the vblank bit and nothing else of the status, resets the Address and
\* Scroll write latches and leaves the VRAM address, the read buffer, OAM and
\* the NMI latch as they were.
C10_StatusRead ==
    obs.status_read # <<>> =>
        LET r == obs.status_read
        IN  /\ r.val = r.pre.status
            /\ cpu.register_a = r.val
            /\ r.post.status = Remove(r.pre.status, VBLANK_STARTED)
            /\ Contains(r.post.status, SPRITE_ZERO_HIT)
                 <=> Contains(r.pre.status, SPRITE_ZERO_HIT)
            /\ Contains(r.post.status, SPRITE_OVERFLOW)
                 <=> Contains(r.pre.status, SPRITE_OVERFLOW)
            /\ r.post.addr.hi_ptr
            /\ ~r.post.scroll.latch
            /\ addr_get(r.post.addr) = addr_get(r.pre.addr)
            /\ r.post.scroll.scroll_x = r.pre.scroll.scroll_x
            /\ r.post.scroll.scroll_y = r.pre.scroll.scroll_y
            /\ r.post.internal_buffer = r.pre.internal_buffer
            /\ r.post.oam_data = r.pre.oam_data
            /\ r.post.oam_addr = r.pre.oam_addr
            /\ r.post.nmi_interrupt = r.pre.nmi_interrupt

\* a read made in vblank after one write to $2006 and one to $2005
C10_Witness ==
    /\ obs.status_read # <<>>
    /\ is_in_vblank(obs.status_read.pre.status)
    /\ ~obs.status_read.pre.addr.hi_ptr
    /\ obs.status_read.pre.scroll.latch
    /\ cpu.register_a = 128

(***************************************************************************)
(* The data port (SpecVram).                                               *)
(***************************************************************************)
\* the last step was a read / a write of $2007
DataRead == obs.access # <<>> /\ obs.access.kind = "read" /\ obs.access.addr = 8199
DataWrite == obs.access # <<>> /\ obs.access.kind = "write" /\ obs.access.addr = 8199

\* the palette cell of an address in $3F00-$3F1F, the four mirrors folded
PaletteCell(a) == IF a \in PaletteMirrors THEN a - 16 - 16128 ELSE a - 16128
PaletteBytes == {ArrRead(ppu.palette_table, i) : i \in 0..(PALETTE_SIZE - 1)}

\* C11: a $2007 read with the VRAM address in $0000-$2FFF returns the byte
\* the buffer held and refills the buffer with the byte stored at the address
\* (CHR ROM or the nametable cell the address mirrors to); with the address in
\* palette space $3F00-$3FFF it returns the palette byte itself.
C11_BufferedRead ==
    DataRead =>
        /\ obs.access.vram_addr <= 12287 =>
             /\ obs.access.fault = "none"
             /\ obs.access.val = obs.access.buffer
             /\ ppu.internal_buffer =
                  IF obs.access.vram_addr <= 8191
                  THEN ArrRead(ppu.chr_rom, obs.access.vram_addr)
                  ELSE ArrRead(ppu.vram, mirror_vram_addr(ppu, obs.access.vram_addr))
        /\ obs.access.vram_addr >= 16128 =>
             /\ obs.access.fault = "none"
             /\ obs.access.val \in PaletteBytes
             /\ obs.access.vram_addr < 16128 + PALETTE_SIZE =>
                  obs.access.val =
                    ArrRead(ppu.palette_table, PaletteCell(obs.access.vram_addr))

\* C12: for every VRAM address in $3F00-$3FFF a $2007 read or write completes
\* without aborting and accesses one of the 32 palette bytes.
C12_PaletteAccess ==
    (DataRead \/ DataWrite) /\ obs.access.vram_addr >= 16128 =>
        /\ obs.access.fault = "none"
        /\ DataRead => obs.access.val \in PaletteBytes
        /\ DataWrite => obs.access.data \in PaletteBytes

PaletteBases == {16128, 16132, 16136, 16140}

\* a byte written through $2007 at address w is the byte a $2007 read at
\* address r returns
WrittenIsRead(w, r, v) ==
    With(write_to_data([ppu EXCEPT !.addr = addr_set(@, w)], v), LAMBDA wr :
    With(read_data([wr.ppu EXCEPT !.addr = addr_set(@, r)]), LAMBDA rd :
    wr.panic = "none" /\ rd.panic = "none" /\ rd.val = v))

\* palette RAM is as constructed or has just been written: every content
\* palette RAM takes in a run is seen in such a state
PaletteFresh == obs.last_op = "new" \/ (DataWrite /\ obs.access.vram_addr >= 16128)

PaletteRoundTrip ==
    PaletteFresh =>
        \A b \in PaletteBases : \A v \in {0, 90, 255} :
            WrittenIsRead(b + 16, b, v) /\ WrittenIsRead(b, b + 16, v)

\* a step seen from the pair ($3F10 + c, $3F00 + c): a write at either address
\* stores the byte in the pair's one cell, a read at either returns the cell,
\* every other step leaves the cell as it is
PaletteStep ==
    \A b \in PaletteBases :
       /\ DataWrite' /\ obs'.access.vram_addr \in {b, b + 16} =>
            /\ obs'.access.fault = "none"
            /\ ArrRead(ppu'.palette_table, b - 16128) = obs'.access.data
       /\ DataRead' /\ obs'.access.vram_addr \in {b, b + 16} =>
            /\ obs'.access.fault = "none"
            /\ obs'.access.val = ArrRead(ppu.palette_table, b - 16128)
       /\ ~(DataWrite' /\ obs'.access.vram_addr \in {b, b + 16}) =>
            ArrRead(ppu'.palette_table, b - 16128) = ArrRead(ppu.palette_table, b - 16128)

\* C13: for each pair (m, b) in {($3F10,$3F00), ($3F14,$3F04), ($3F18,$3F08),
\* ($3F1C,$3F0C)} a byte written through $2007 at m is the byte read at b and
\* a byte written at b is the byte read at m, and the byte stays through the
\* steps that write neither address.
C13_PaletteMirror == [](PaletteRoundTrip) /\ [][PaletteStep]_vars

\* a read at the mirror $3F10 returns the byte written to the pair's cell
C13_Witness ==
    /\ DataRead
    /\ obs.access.vram_addr = 16144
    /\ obs.access.val = 90
    /\ ArrRead(ppu.palette_table, 0) = 90

\* the first address of nametable n, and the vram cells nametable n maps to
NameTable(n) == 8192 + n * 1024
NameTableCells(n) == {mirror_vram_addr(ppu, NameTable(n) + o) : o \in 0..1023}

\* mirror_vram_addr over the whole of $2000-$2FFF for the cartridge's mirroring
MirrorLaw ==
    /\ ppu.mirroring \in {"VERTICAL", "HORIZONTAL"} =>
         \A a \in 8192..12287 : mirror_vram_addr(ppu, a) \in 0..(VRAM_SIZE - 1)
    /\ ppu.mirroring = "VERTICAL" =>
         /\ \A o \in 0..1023 :
              /\ mirror_vram_addr(ppu, NameTable(2) + o) = mirror_vram_addr(ppu, NameTable(0) + o)
              /\ mirror_vram_addr(ppu, NameTable(3) + o) = mirror_vram_addr(ppu, NameTable(1) + o)
         /\ Cardinality(NameTableCells(0) \cup NameTableCells(1)) = 2048
    /\ ppu.mirroring = "HORIZONTAL" =>
         /\ \A o \in 0..1023 :
              /\ mirror_vram_addr(ppu, NameTable(1) + o) = mirror_vram_addr(ppu, NameTable(0) + o)
              /\ mirror_vram_addr(ppu, NameTable(3) + o) = mirror_vram_addr(ppu, NameTable(2) + o)
         /\ Cardinality(NameTableCells(0) \cup NameTableCells(2)) = 2048

\* C14: for every address in $2000-$2FFF mirror_vram_addr returns an index
\* below 2048 under VERTICAL and HORIZONTAL mirroring; under VERTICAL
\* nametables 2 and 3 map to the cells of 0 and 1, which stay distinct; under
\* HORIZONTAL nametable 1 maps to the cells of 0 and 3 to the cells of 2, and 0
\* and 2 stay distinct.  The mirroring never changes, so the law is evaluated
\* in the first state; a $2007 write then stores into the cell of the law.
C14_Mirroring ==
    /\ obs.last_op = "new" => MirrorLaw
    /\ (DataWrite /\ obs.access.vram_addr \in 8192..12287
          /\ ppu.mirroring \in {"VERTICAL", "HORIZONTAL"}) =>
         /\ obs.access.fault = "none"
         /\ mirror_vram_addr(ppu, obs.access.vram_addr) < VRAM_SIZE
         /\ ArrRead(ppu.vram, mirror_vram_addr(ppu, obs.access.vram_addr)) = obs.access.data

\* a write at $2800, in nametable 2, lands in the first cell of nametable 0
\* (VERTICAL) or of the second kilobyte (HORIZONTAL)
C14_Witness ==
    /\ DataWrite
    /\ obs.access.vram_addr = 10240
    /\ obs.access.fault = "none"
    /\ \/ ppu.mirroring = "VERTICAL" /\ ArrRead(ppu.vram, 0) = 90
       \/ ppu.mirroring = "HORIZONTAL" /\ ArrRead(ppu.vram, 1024) = 90

\* C15: under FOUR_SCREEN mirroring a byte written through $2007 at an
\* address in $2000-$2FFF is stored without aborting and is the byte read
\* back from that address, and the four nametables are independent: the images
\* of the address in the other three nametables are other cells.
C15_FourScreen ==
    (ppu.mirroring = "FOUR_SCREEN" /\ DataWrite /\ obs.access.vram_addr \in 8192..12287) =>
        /\ obs.access.fault = "none"
        /\ With(read_data([ppu EXCEPT !.addr = addr_set(@, obs.access.vram_addr)]),
                LAMBDA rd : rd.panic = "none" /\ rd.ppu.internal_buffer = obs.access.data)
        /\ \A n \in 0..3 :
             NameTable(n) + (obs.access.vram_addr % 1024) # obs.access.vram_addr =>
               mirror_vram_addr(ppu, NameTable(n) + (obs.access.vram_addr % 1024))
                 # mirror_vram_addr(ppu, obs.access.vram_addr)

(***************************************************************************)
(* Work RAM, PRG ROM and OAM DMA (SpecBus, SpecDma).                       *)
(***************************************************************************)
\* the last step was a bus write / a bus read inside [lo, hi]
WriteIn(lo, hi) ==
    obs.access # <<>> /\ obs.access.kind = "write" /\ obs.access.addr \in lo..hi
ReadIn(lo, hi) ==
    obs.access # <<>> /\ obs.access.kind = "read" /\ obs.access.addr \in lo..hi

\* the byte a bus read of addr returns in the current state
BusByte(addr) == mem_read(Machine, addr).val

\* a byte written to image k of cell a is read in the four images of the cell
RamImages(a, k, v) ==
    With(mem_write(Machine, a + k * RAM_SIZE, v), LAMBDA m :
    m.fault = "none" /\ \A j \in 0..3 : mem_read(m, a + j * RAM_SIZE).val = v)

\* C16: for every a in $0000-$07FF and k in 0..3 a bus write to a + k*$800
\* is observed by a bus read of a + j*$800 for every j in 0..3.  Evaluated for
\* all cells on the RAM as constructed, and at every write and read a run
\* makes: the byte written, and the byte read, is the byte of all four images.
C16_RamMirrors ==
    /\ obs.last_op = "new" =>
         \A a \in 0..(RAM_SIZE - 1) : \A k \in 0..3 : RamImages(a, k, 90)
    /\ WriteIn(0, 8191) =>
         /\ obs.access.fault = "none"
         /\ \A j \in 0..3 :
              BusByte((obs.access.addr % RAM_SIZE) + j * RAM_SIZE) = obs.access.data
    /\ ReadIn(0, 8191) =>
         \A j \in 0..3 :
              BusByte((obs.access.addr % RAM_SIZE) + j * RAM_SIZE) = obs.access.val

\* a byte written at $1FFF, in the fourth image, is read at $07FF
C16_Witness ==
    /\ WriteIn(8191, 8191)
    /\ obs.access.data = 165
    /\ BusByte(2047) = 165

\* the machine after the run loop executes STA $8000 fetched at PC
StoreToRom ==
    run_instruction([Machine EXCEPT !.fetch = [at |-> cpu.program_counter,
                                               bytes |-> <<141, 0, 128>>]])

\* C17: a bus write to an address in $8000-$FFFF is a fatal error that aborts
\* execution, PRG ROM is the same in every reachable state, and with a 16 KiB
\* PRG the reads of a and a + $4000 return the same byte for every a in
\* $8000-$BFFF.  The reads are compared over the whole window in the first
\* state (PRG ROM never changes) and at every ROM read a run makes.
C17_RomWriteFatal ==
    /\ WriteIn(CARTRIDGE_ROM_START, 65535) =>
         obs.access.fault = "panic: write to ROM" /\ pos = "aborted"
    /\ bus.prg_rom = Vectors(bus.prg_len)
    /\ obs.last_op = "new" =>
         /\ StoreToRom.fault = "panic: write to ROM"
         /\ bus.prg_len = 16384 =>
              \A a \in CARTRIDGE_ROM_START..49151 : BusByte(a) = BusByte(a + 16384)
    /\ (ReadIn(CARTRIDGE_ROM_START, 49151) /\ bus.prg_len = 16384) =>
         BusByte(obs.access.addr + 16384) = obs.access.val
    /\ (ReadIn(49152, 65535) /\ bus.prg_len = 16384) =>
         BusByte(obs.access.addr - 16384) = obs.access.val

\* a write to the NMI vector at $FFFA has aborted the run; the vector is intact
C17_Witness ==
    /\ WriteIn(65530, 65530)
    /\ pos = "aborted"
    /\ BusByte(65530) = 252
    /\ bus.prg_len = 16384

\* C18: after a write of v to $4014 with the source page in work RAM,
\* OAM[(a0 + i) mod 256] is the bus byte at (v << 8) + i for every i in
\* 0..255, a0 being oam_addr before the write, and oam_addr is a0 again.
C18_OamDma ==
    WriteIn(16404, 16404) =>
        /\ obs.access.fault = "none"
        /\ \A i \in 0..(OAM_SIZE - 1) :
             ArrRead(ppu.oam_data, (obs.access.oam_addr + i) % OAM_SIZE)
               = BusByte(obs.access.data * 256 + i)
        /\ ppu.oam_addr = obs.access.oam_addr

\* a DMA of page $0F, an image of page 7, started at OAM address 254: the last
\* byte of the page is in OAM cell 253 and the first in cell 254
C18_Witness ==
    /\ WriteIn(16404, 16404)
    /\ obs.access.data = 15
    /\ obs.access.oam_addr = 254
    /\ ppu.oam_addr = 254
    /\ ArrRead(bus.cpu_vram, 2047) = 90
    /\ ArrRead(ppu.oam_data, 253) = 90

(***************************************************************************)
(* The stack (SpecStack).                                                  *)
(***************************************************************************)
\* the last step executed the opcode code
Executed(code) == obs.access # <<>> /\ obs.access.kind = "exec" /\ obs.access.code = code

\* push(b) then pop() from the machine m: the push writes b at $0100 + SP
\* and nowhere else, the pop returns b and SP is as before
PushPop(m, b) ==
    With(stack_push(m, b), LAMBDA m1 :
    With(stack_pop(m1), LAMBDA r :
    /\ m1.fault = "none"
    /\ m1.bus.cpu_vram = ArrWrite(m.bus.cpu_vram, STACK + m.cpu.stack_pointer, b)
    /\ m1.cpu.stack_pointer = (m.cpu.stack_pointer + 255) % 256
    /\ m1.ppu = m.ppu
    /\ r.val = b
    /\ r.m.cpu.stack_pointer = m.cpu.stack_pointer
    /\ r.m.bus = m1.bus))

\* push16(x) then pop16() from the machine m: the high byte goes to
\* $0100 + SP, the low byte to $0100 + ((SP - 1) mod 256)
PushPop16(m, x) ==
    With(stack_push_u16(m, x), LAMBDA m1 :
    With(stack_pop_u16(m1), LAMBDA r :
    /\ m1.fault = "none"
    /\ m1.bus.cpu_vram =
         ArrWrite(ArrWrite(m.bus.cpu_vram, STACK + m.cpu.stack_pointer, x \div 256),
                  STACK + ((m.cpu.stack_pointer + 255) % 256), x % 256)
    /\ m1.cpu.stack_pointer = (m.cpu.stack_pointer + 254) % 256
    /\ m1.ppu = m.ppu
    /\ r.val = x
    /\ r.m.cpu.stack_pointer = m.cpu.stack_pointer
    /\ r.m.bus = m1.bus))

StackBytes8 == {0, 90, 255}
StackWords == {0, 255, 256, 4660, 33023, 65280, 65535}

\* C19: for every SP in 0..255 and every byte b, push(b) then pop() returns
\* b and restores SP; for every word x, push16(x) then pop16() returns x and
\* restores SP, the high byte pushed first, every access inside $0100-$01FF.
\* Evaluated for all 256 stack pointers on the machine as started, from the
\* machine of every state of a run, and on the PHA and PLA a run executes.
C19_StackRoundTrip ==
    /\ obs.last_op = "new" =>
         \A sp \in 0..255 :
           /\ \A b \in StackBytes8 :
                PushPop([Machine EXCEPT !.cpu.stack_pointer = sp], b)
           /\ \A x \in StackWords :
                PushPop16([Machine EXCEPT !.cpu.stack_pointer = sp], x)
    /\ pos # "aborted" => PushPop(Machine, 90) /\ PushPop16(Machine, 33023)
    /\ Executed(72) =>
         /\ cpu.stack_pointer = (obs.access.sp + 255) % 256
         /\ BusByte(STACK + obs.access.sp) = obs.access.a
         /\ With(pla(Machine), LAMBDA m :
              m.cpu.register_a = obs.access.a /\ m.cpu.stack_pointer = obs.access.sp)
    /\ Executed(104) =>
         /\ cpu.stack_pointer = (obs.access.sp + 1) % 256
         /\ cpu.register_a = BusByte(STACK + cpu.stack_pointer)

\* a PHA of $5A with SP = $00 wrote $0100 and wrapped SP to $FF
C19_Witness ==
    /\ Executed(72)
    /\ obs.access.sp = 0
    /\ obs.access.a = 90
    /\ cpu.stack_pointer = 255
    /\ BusByte(256) = 90

\* the machine after the run loop executes an RTS fetched at the current PC
ReturnNow ==
    run_instruction([Machine EXCEPT !.fetch = [at |-> cpu.program_counter,
                                               bytes |-> <<96>>]])

\* C20: a JSR located at address a pushes the word a + 2, high byte first,
\* and sets PC to its operand; an RTS executed with the stack as the JSR left
\* it sets PC to a + 3 and restores SP to its value before the JSR.
C20_JsrRts ==
    Executed(32) =>
        /\ BusByte(STACK + obs.access.sp) = Hi(obs.access.pc + 2)
        /\ BusByte(STACK + ((obs.access.sp + 255) % 256)) = Lo(obs.access.pc + 2)
        /\ cpu.stack_pointer = (obs.access.sp + 254) % 256
        /\ cpu.program_counter = obs.access.operand
        /\ With(ReturnNow, LAMBDA m :
             /\ m.cpu.program_counter = obs.access.pc + 3
             /\ m.cpu.stack_pointer = obs.access.sp)

(***************************************************************************)
(* Jumps, branches and interrupts (SpecFlow).                              *)
(***************************************************************************)
\* C21: after a JMP absolute and after a JSR, PC is the 16-bit operand of
\* the instruction, for every operand, the address of the operand's own
\* first byte included.
C21_JumpTarget ==
    (Executed(76) \/ Executed(32)) => cpu.program_counter = obs.access.operand

\* the machine after the run loop executes the instruction code, b1, b2
\* fetched at the PC of the machine m, and at the current PC
RunOn(m, code, b1, b2) ==
    run_instruction([m EXCEPT
                       !.fetch = [at |-> m.cpu.program_counter,
                                  bytes |-> SubSeq(<<code, b1, b2>>, 1,
                                                   OPCODES_MAP[code].len)]])

RunNow(code, b1, b2) == RunOn(Machine, code, b1, b2)

SignedByte(b) == IF b >= 128 THEN b - 256 ELSE b

\* whether BEQ ($F0) or BNE ($D0) is taken with the status register p
Taken(code, p) == IF code = 240 THEN Contains(p, ZERO) ELSE ~Contains(p, ZERO)

\* a branch with offset byte off, located at pc and executed at bus cycle
\* cycles with status p, has left PC at pc1 and the bus at cycles1
BranchLaw(code, off, pc, p, cycles, pc1, cycles1) ==
    With(pc + 2, LAMBDA following :
    With((following + SignedByte(off) + 65536) % 65536, LAMBDA target :
    IF Taken(code, p)
    THEN /\ pc1 = target
         /\ cycles1 = cycles + 2 + 1
                      + (IF following \div 256 # target \div 256 THEN 1 ELSE 0)
    ELSE /\ pc1 = following
         /\ cycles1 = cycles + 2))

\* C22: a taken branch leaves PC at the address of the following instruction
\* plus the signed offset, for every offset in -128..127, and costs one extra
\* cycle plus one more exactly when that target is in another page than the
\* following instruction; an untaken branch leaves PC at the following
\* instruction at no extra cycle.  Stated of the branches a run executes and,
\* after the first instruction of a run, of BEQ and BNE with each of the 256
\* offset bytes executed from the machine as it is.
C22_Branch ==
    /\ (Executed(240) \/ Executed(208)) =>
         BranchLaw(obs.access.code, obs.access.operand, obs.access.pc,
                   obs.access.status, obs.access.cycles,
                   cpu.program_counter, bus.cycles)
    /\ (obs.steps = 1 /\ pos = "poll" /\ CodeInRom) =>
         \A code \in {240, 208} : \A off \in 0..255 :
           With(RunNow(code, off, 0), LAMBDA m :
             BranchLaw(code, off, cpu.program_counter, cpu.status, bus.cycles,
                       m.cpu.program_counter, m.bus.cycles))

\* the word JMP indirect takes from the pointer q: the low byte at q, the
\* high byte at q + 1, or at the start of the page of q when q ends in $FF
IndirectTarget(q) ==
    IF q % 256 = 255
    THEN BusByte(q) + 256 * BusByte(q - 255)
    ELSE BusByte(q) + 256 * BusByte(q + 1)

\* C23: JMP indirect with the operand pointer q sets PC to the word whose
\* low byte is at q and whose high byte is at q + 1 when the low byte of q
\* is not $FF, and at (q AND $FF00) when it is.
C23_JmpIndirect ==
    Executed(108) => cpu.program_counter = IndirectTarget(obs.access.operand)

PulledStatus(byte) == (byte - BitAnd(byte, 16)) + (IF BitAnd(byte, 32) = 0 THEN 32 ELSE 0)

\* the byte a pull made with the stack pointer sp popped, off the RAM the
\* last instruction found
PulledByte(sp) == ArrRead(obs.access.ram, STACK + wrapping_add8(sp, 1))

\* PLP and RTI executed from the machine m with the stack pointer sp and
\* the byte b on top of the stack
PullsOf(m, sp, b) ==
    With([m EXCEPT !.cpu.stack_pointer = sp,
                   !.bus.cpu_vram = ArrWrite(@, STACK + wrapping_add8(sp, 1), b)],
         LAMBDA m1 :
      /\ plp(m1).cpu.status = PulledStatus(b)
      /\ plp(m1).cpu.stack_pointer = wrapping_add8(sp, 1)
      /\ rti(m1).cpu.status = PulledStatus(b)
      /\ rti(m1).cpu.stack_pointer = wrapping_add8(sp, 3))

\* C25: PLP and RTI load P from the popped byte with BREAK forced to 0 and
\* BREAK2 forced to 1, for each of the 256 bytes, and at every instruction
\* boundary after construction or reset the status register has bit 5 set
\* and bit 4 clear, whatever bytes are on the stack.
C25_PulledStatus ==
    /\ Contains(cpu.status, BREAK2) /\ ~Contains(cpu.status, BREAK)
    /\ obs.last_op = "new" =>
         \A b \in 0..255 : \A sp \in {cpu.stack_pointer, 254, 255} :
           PullsOf(Machine, sp, b)
    /\ Executed(40) =>
         /\ cpu.status = PulledStatus(PulledByte(obs.access.sp))
         /\ cpu.stack_pointer = wrapping_add8(obs.access.sp, 1)
    /\ Executed(64) =>
         /\ cpu.status = PulledStatus(PulledByte(obs.access.sp))
         /\ cpu.stack_pointer = wrapping_add8(obs.access.sp, 3)

\* a PLP that popped $DB, BREAK set and BREAK2 clear, and left P = $EB
C25_Witness ==
    /\ Executed(40)
    /\ PulledByte(obs.access.sp) = 219
    /\ cpu.status = 235

(***************************************************************************)
(* Arithmetic (SpecAlu).                                                   *)
(***************************************************************************)
Bit7(v) == v \div 128
\* bit k (a power of two) of the byte p, and p with that bit set to on
Flag(p, k) == (p \div k) % 2
WithFlag(p, k, on) == p - Flag(p, k) * k + (IF on THEN k ELSE 0)

\* c is the CPU add_with_carry leaves when it adds d to the accumulator a
\* under the status p: the other flags are as they were
AddLaw(a, p, d, c) ==
    With(a + d + Flag(p, CARRY), LAMBDA sum :
    With(sum % 256, LAMBDA result :
    /\ c.register_a = result
    /\ c.status = WithFlag(WithFlag(p, CARRY, sum > 255), OVERFLOW,
                           Bit7(d) # Bit7(result) /\ Bit7(a) # Bit7(result))))

\* c is the CPU the instruction ADC leaves: as add_with_carry, with ZERO
\* and NEGATIVE from the result
AdcLaw(a, p, d, c) ==
    With(a + d + Flag(p, CARRY), LAMBDA sum :
    With(sum % 256, LAMBDA result :
    /\ c.register_a = result
    /\ c.status =
         WithFlag(WithFlag(WithFlag(WithFlag(p, CARRY, sum > 255), OVERFLOW,
                           Bit7(d) # Bit7(result) /\ Bit7(a) # Bit7(result)),
                           ZERO, result = 0), NEGATIVE, Bit7(result) = 1)))

\* c is the CPU the instruction SBC leaves: the CPU of an ADC of d xor $FF,
\* with A = (a - d - (1 - C)) mod 256 and CARRY set exactly when there was
\* no borrow
SbcLaw(a, p, d, c) ==
    With(a - d - (1 - Flag(p, CARRY)), LAMBDA difference :
    /\ AdcLaw(a, p, 255 - d, c)
    /\ c.register_a = (difference + 256) % 256
    /\ Flag(c.status, CARRY) = (IF difference >= 0 THEN 1 ELSE 0))

\* C26: for all bytes A and M and both carries, ADC leaves A = (A + M + C)
\* mod 256, CARRY = (A + M + C > 255) and OVERFLOW = (((M xor result) and
\* (A xor result) and $80) # 0); SBC leaves exactly the registers and flags
\* of ADC of M xor $FF, that is A = (A - M - (1 - C)) mod 256 with CARRY set
\* iff no borrow occurred.  Stated of add_with_carry applied with each of
\* the 256 operands to each machine a run starts from, of the operand SBC
\* hands to it, and of every ADC and SBC the run loop executes.
C26_AdcSbc ==
    /\ obs.last_op = "new" =>
         \A d \in 0..255 :
           /\ With(add_with_carry(Machine, d).cpu, LAMBDA c :
                AddLaw(cpu.register_a, cpu.status, d, c))
           /\ sbc_operand(d) = 255 - d
    /\ Executed(105) =>
         AdcLaw(obs.access.a, obs.access.status, obs.access.operand, cpu)
    /\ Executed(101) =>
         AdcLaw(obs.access.a, obs.access.status, BusByte(obs.access.operand), cpu)
    /\ (Executed(233) \/ Executed(235)) =>
         SbcLaw(obs.access.a, obs.access.status, obs.access.operand, cpu)
    /\ Executed(229) =>
         SbcLaw(obs.access.a, obs.access.status, BusByte(obs.access.operand), cpu)

\* an SBC #$80 from A = $00 with the carry set: the borrow clears the carry
\* and the result $80 overflows
C26_Witness ==
    /\ Executed(233)
    /\ obs.access.a = 0
    /\ obs.access.operand = 128
    /\ Contains(obs.access.status, CARRY)
    /\ cpu.register_a = 128
    /\ Contains(cpu.status, OVERFLOW)
    /\ ~Contains(cpu.status, CARRY)

(***************************************************************************)
(* Shifts, loads, transfers and AXS (SpecRegs).                            *)
(***************************************************************************)
\* the accumulator forms and the zero-page forms of ASL, LSR, ROL and ROR
AccumulatorShifts == {10, 74, 42, 106}
MemoryShifts == {6, 70, 38, 102}

\* the byte a shift executed by the last step found, and the byte it left
ShiftInput ==
    IF obs.access.code \in AccumulatorShifts THEN obs.access.a
    ELSE ArrRead(obs.access.ram, obs.access.operand)

ShiftOutput ==
    IF obs.access.code \in AccumulatorShifts THEN cpu.register_a
    ELSE BusByte(obs.access.operand)

\* the shift or rotate code applied to the byte d with incoming carry c has
\* left the byte r and the status p
ShiftLaw(code, d, c, r, p) ==
    LET left == code \in {10, 6, 42, 38}
        carry_in == IF code \in {42, 38, 106, 102} THEN c ELSE 0
    IN  /\ r = IF left THEN ((d * 2) % 256) + carry_in
                       ELSE (d \div 2) + 128 * carry_in
        /\ Flag(p, CARRY) = IF left THEN d \div 128 ELSE d % 2
        /\ Flag(p, ZERO) = IF r = 0 THEN 1 ELSE 0
        /\ Flag(p, NEGATIVE) = r \div 128

\* C27: after ASL, LSR, ROL and ROR, in accumulator and in memory form,
\* CARRY is the bit shifted out, a rotate has inserted the old carry at the
\* vacated end, ZERO is set iff the result is zero and NEGATIVE is bit 7 of
\* the result.
C27_ShiftRotate ==
    \A code \in AccumulatorShifts \union MemoryShifts :
      Executed(code) =>
        ShiftLaw(code, ShiftInput, Flag(obs.access.status, CARRY), ShiftOutput,
                 cpu.status)

\* LDA, LDX, LDY immediate, TAX, TAY, TXA, TYA, TSX, PLA, INX, INY, DEX, DEY
LoadCodes == {169, 162, 160, 170, 168, 138, 152, 186, 104, 232, 200, 202, 136}

\* the register the instruction code writes, as the last step left it
LoadedRegister(code) ==
    CASE code \in {169, 138, 152, 104} -> cpu.register_a
      [] code \in {162, 170, 186, 232, 202} -> cpu.register_x
      [] code \in {160, 168, 200, 136} -> cpu.register_y

\* the value the instruction code loads, from what the last step found
LoadedValue(code) ==
    CASE code \in {169, 162, 160} -> obs.access.operand
      [] code \in {170, 168} -> obs.access.a
      [] code = 138 -> obs.access.x
      [] code = 152 -> obs.access.y
      [] code = 186 -> obs.access.sp
      [] code = 104 -> ArrRead(obs.access.ram, STACK + ((obs.access.sp + 1) % 256))
      [] code = 232 -> (obs.access.x + 1) % 256
      [] code = 200 -> (obs.access.y + 1) % 256
      [] code = 202 -> (obs.access.x + 255) % 256
      [] code = 136 -> (obs.access.y + 255) % 256

\* C28: after LDA, LDX, LDY, TAX, TAY, TXA, TYA, TSX, PLA, INX, INY, DEX
\* and DEY the register holds the value loaded (the increments and
\* decrements wrapping modulo 256), ZERO is set iff that value is zero and
\* NEGATIVE is its bit 7.
C28_LoadFlags ==
    \A code \in LoadCodes :
      Executed(code) =>
        /\ LoadedRegister(code) = LoadedValue(code)
        /\ Flag(cpu.status, ZERO) = IF LoadedValue(code) = 0 THEN 1 ELSE 0
        /\ Flag(cpu.status, NEGATIVE) = LoadedValue(code) \div 128

\* C29: AXS #M executed with the registers A and X leaves X = ((A and X) -
\* M) mod 256, CARRY set iff (A and X) >= M, ZERO and NEGATIVE from the new
\* X, and does not abort, whatever M is.
C29_Axs ==
    Executed(203) =>
      With(BitAnd(obs.access.a, obs.access.x), LAMBDA t :
        /\ pos # "aborted"
        /\ cpu.register_x = (t - obs.access.operand + 256) % 256
        /\ Flag(cpu.status, CARRY) = IF t >= obs.access.operand THEN 1 ELSE 0
        /\ Flag(cpu.status, ZERO) = IF cpu.register_x = 0 THEN 1 ELSE 0
        /\ Flag(cpu.status, NEGATIVE) = cpu.register_x \div 128)

(***************************************************************************)
(* Undocumented read-modify-write instructions (SpecRmw).                  *)
(***************************************************************************)
RmwCodes ==
    SloCodes \union RlaCodes \union SreCodes \union RraCodes \union DcpCodes
    \union IsbCodes

\* the machine as the run loop had it after fetching the opcode of the
\* instruction of the last step
Fetched ==
    [Machine EXCEPT
       !.cpu = [register_a |-> obs.access.a, register_x |-> obs.access.x,
                register_y |-> obs.access.y, status |-> obs.access.status,
                program_counter |-> obs.access.pc + 1,
                stack_pointer |-> obs.access.sp],
       !.bus.cpu_vram = obs.access.ram,
       !.bus.cycles = obs.access.cycles,
       !.fetch = [at |-> obs.access.pc,
                  bytes |-> SubSeq(<<obs.access.code, Lo(obs.access.operand),
                                     Hi(obs.access.operand)>>,
                                   1, OPCODES_MAP[obs.access.code].len)]]

\* the first, read-modify-write step of the instruction code
RmwStep(m, code, mode) ==
    CASE code \in SloCodes -> asl(m, mode)
      [] code \in RlaCodes -> rol(m, mode)
      [] code \in SreCodes -> lsr(m, mode)
      [] code \in RraCodes -> ror(m, mode)
      [] code \in DcpCodes -> dec(m, mode)
      [] code \in IsbCodes -> inc(m, mode)

\* the second, accumulator step of the instruction code
AccStep(m, code, mode) ==
    CASE code \in SloCodes -> ora(m, mode)
      [] code \in RlaCodes -> and(m, mode)
      [] code \in SreCodes -> eor(m, mode)
      [] code \in RraCodes -> adc(m, mode)
      [] code \in DcpCodes -> compare(m, mode, m.cpu.register_a)
      [] code \in IsbCodes -> sbc(m, mode)

\* the machine m with the operand bytes of its instruction naming the
\* address e
AtAddress(m, e) == [m EXCEPT !.fetch.bytes = <<0, Lo(e), Hi(e)>>]

\* C30: after SLO, RLA, SRE, RRA, DCP and ISB, in each addressing mode, the
\* cell at the effective address decoded from the operand holds what the
\* read-modify-write step left there, and the accumulator and the status
\* register are what the accumulator step gives when it operates on that
\* same address.
C30_SameAddress ==
    \A code \in RmwCodes :
      (Executed(code) /\ pos # "aborted") =>
        With(OPCODES_MAP[code].mode, LAMBDA mode :
        With(get_operand_address(Fetched, mode).addr, LAMBDA e :
        With(RmwStep(Fetched, code, mode), LAMBDA m1 :
        With(AccStep(AtAddress(m1, e), code, "Absolute").cpu, LAMBDA c :
          /\ BusByte(e) = mem_read(m1, e).val
          /\ cpu.register_a = c.register_a
          /\ cpu.status = c.status))))

(***************************************************************************)
(* Order of bus writes and clock ticks within an instruction (SpecFlow).   *)
(***************************************************************************)
\* the CPU cycles of the ticks in the event log ev
RECURSIVE TickCycles(_)
TickCycles(ev) ==
    IF ev = <<>> THEN 0
    ELSE (IF Head(ev).kind = "tick" THEN Head(ev).n ELSE 0) + TickCycles(Tail(ev))

\* C31: in the bus writes and Bus::tick calls of an executed instruction, in
\* the order the instruction made them, no write follows a tick; the last
\* of them is the tick of the base cycles of the opcode; and when the
\* instruction is over the bus clock has advanced by the cycles of all its
\* ticks and the PPU stands where the last tick left it.
C31_WritesBeforeTicks ==
    (obs.access # <<>> /\ obs.access.kind = "exec" /\ pos # "aborted") =>
      /\ \A i, j \in DOMAIN obs.events :
           (obs.events[i].kind = "tick" /\ obs.events[j].kind = "write") => j < i
      /\ obs.events # <<>>
      /\ obs.events[Len(obs.events)] =
           [kind |-> "tick", n |-> OPCODES_MAP[obs.access.code].cycles]
      /\ bus.cycles = obs.access.cycles + TickCycles(obs.events)
      /\ obs.ticks # <<>>
      /\ obs.ticks[Len(obs.ticks)].post = PpuView(ppu)

\* a BRK: three pushes, then the seven cycles of the interrupt entry, then
\* the base cycles of the opcode
C31_Witness ==
    /\ Executed(0)
    /\ pos = "poll"
    /\ Len(obs.events) = 5
    /\ \A i \in 1..3 : obs.events[i].kind = "write"
    /\ obs.events[4] = [kind |-> "tick", n |-> BRK_CYCLES]
    /\ obs.events[5] = [kind |-> "tick", n |-> 7]

(***************************************************************************)
(* Cartridge loader (src/src/cart.rs).  A Vec<u8> is the record of its     *)
(* length and of the function of its non-zero cells, offsets from 0.       *)
(***************************************************************************)
NES_TAG == <<78, 69, 83, 26>>
PRG_ROM == 16384
CHR_ROM == 8192
TRAINER_SIZE == 512

Vec(len, cells) == [len |-> len, cells |-> cells]
VecAt(v, i) == ArrRead(v.cells, i)
\* vec![byte; len], kept by its first and last cell: the cells between them
\* are zero
Marked(len, byte) ==
    Vec(len, [i \in (IF len = 0 THEN {} ELSE {0, len - 1}) |-> byte])
\* Vec::extend
Extend(u, v) ==
    Vec(u.len + v.len,
        [i \in (DOMAIN u.cells) \cup {j + u.len : j \in DOMAIN v.cells} |->
           IF i < u.len THEN u.cells[i] ELSE v.cells[i - u.len]])
\* v[from..to].to_vec(), for from <= to <= v.len
Slice(v, from, to) ==
    Vec(to - from,
        [i \in {j - from : j \in {k \in DOMAIN v.cells : k >= from /\ k < to}} |->
           v.cells[i + from]])
\* the first n bytes of v
Truncate(v, n) == Slice(v, 0, n)

\* the bytes of a header as a Vec
HeaderVec(bytes) ==
    Vec(Len(bytes), [i \in {j - 1 : j \in {k \in DOMAIN bytes : bytes[k] # 0}} |->
                       bytes[i + 1]])

\* test::create_rom
create_rom(rom) ==
    Extend(Extend(Extend(HeaderVec(rom.header),
                         IF rom.trainer = None THEN Vec(0, <<>>) ELSE rom.trainer[1]),
                  rom.pgp_rom),
           rom.chr_rom)

\* a version field that looks at bit 2 of byte 7 only
ines_ver_bit2_only(rom_data) == (VecAt(rom_data, 7) \div 4) % 2

\* let ines_ver = (rom_data[7] >> 2) & 0b11
ines_ver(rom_data) == (VecAt(rom_data, 7) \div 4) % 4

\* a PRG start that does not skip the trainer
prg_rom_start_no_trainer(rom_data) == 16

\* let prg_rom_start = 16 + if skip_trainer { 512 } else { 0 }
prg_rom_start(rom_data) ==
    16 + (IF BitAnd(VecAt(rom_data, 6), 4) # 0 THEN TRAINER_SIZE ELSE 0)

RomOk(rom) == [kind |-> "Ok", rom |-> rom]
RomErr(msg) == [kind |-> "Err", msg |-> msg]
RomPanic == [kind |-> "panic", what |-> OutOfBounds]

\* Rom::new
Rom_new(rom_data) ==
    IF rom_data.len < 4 THEN RomPanic
    ELSE IF [i \in 1..4 |-> VecAt(rom_data, i - 1)] # NES_TAG
    THEN RomErr("Unsupported format")
    ELSE IF rom_data.len < 8 THEN RomPanic
    ELSE
    With(BitOr(BitAnd(VecAt(rom_data, 7), 240), VecAt(rom_data, 6) \div 16),
         LAMBDA mapper :
    IF ines_ver(rom_data) # 0 THEN RomErr("NES2.0 is not supported")
    ELSE
    With(BitAnd(VecAt(rom_data, 6), 8) # 0, LAMBDA four_screen :
    With(BitAnd(VecAt(rom_data, 6), 1) # 0, LAMBDA vertical_mirroring :
    With(IF four_screen THEN "FOUR_SCREEN"
         ELSE IF vertical_mirroring THEN "VERTICAL" ELSE "HORIZONTAL",
         LAMBDA screen_mirroring :
    With(VecAt(rom_data, 4) * PRG_ROM, LAMBDA prg_rom_size :
    With(VecAt(rom_data, 5) * CHR_ROM, LAMBDA chr_rom_size :
    With(prg_rom_start(rom_data), LAMBDA prg_start :
    With(prg_start + prg_rom_size, LAMBDA chr_rom_start :
    IF prg_start + prg_rom_size > rom_data.len THEN RomPanic
    ELSE IF chr_rom_start + chr_rom_size > rom_data.len THEN RomPanic
    ELSE RomOk([prg_rom |-> Slice(rom_data, prg_start, prg_start + prg_rom_size),
                chr_rom |-> Slice(rom_data, chr_rom_start,
                                  chr_rom_start + chr_rom_size),
                mapper |-> mapper,
                screen_mirroring |-> screen_mirroring])))))))))

\* Bus::new, with the MyPPU::new it calls
Bus_new(rom) ==
    [bus |-> [cpu_vram |-> <<>>, prg_rom |-> rom.prg_rom.cells,
              prg_len |-> rom.prg_rom.len, cycles |-> 0],
     ppu |-> [MyPPU_new EXCEPT !.chr_rom = rom.chr_rom.cells,
                               !.chr_len = rom.chr_rom.len,
                               !.mirroring = rom.screen_mirroring]]

(***************************************************************************)
(* SpecRom: an image file is handed to Rom::new and, when a Rom comes      *)
(* back, the Rom is handed to Bus::new.  The files are built as the tests  *)
(* of cart.rs build them, from a header, an optional trainer, the PRG      *)
(* banks and the CHR banks; some are cut short, some carry a trainer the   *)
(* header does not announce or lack the one it announces.                  *)
(***************************************************************************)
\* 16 KiB PRG banks and 8 KiB CHR banks of the image files
MaxPrgBanks == 2
MaxChrBanks == 1

BadTag == <<78, 69, 83, 0>>
\* mirroring bit, trainer bit, four-screen bit, low mapper nibble
Control1Bytes == {0, 1, 4, 8, 9, 16, 49, 53, 61}
\* version field 0..3, high mapper nibble
Control2Bytes == {0, 4, 8, 12, 16, 240}

TestRoms ==
    {[header |-> tag \o <<p, c, b6, b7, 0, 0, 0, 0, 0, 0, 0, 0>>,
      trainer |-> tr,
      pgp_rom |-> Marked(p * PRG_ROM, 1),
      chr_rom |-> Marked(c * CHR_ROM, 2)] :
        tag \in {NES_TAG, BadTag}, p \in 1..MaxPrgBanks, c \in 0..MaxChrBanks,
        b6 \in Control1Bytes, b7 \in Control2Bytes,
        tr \in {None, Some(Marked(TRAINER_SIZE, 84))}}

\* the files: whole, without their last byte, and cut inside the header
RomFiles ==
    {[parts |-> t, rom_data |-> create_rom(t)] : t \in TestRoms}
    \cup {[parts |-> t, rom_data |-> Truncate(create_rom(t), create_rom(t).len - 1)] :
            t \in {u \in TestRoms : u.header[8] = 0 /\ u.header[7] \in {0, 1}}}
    \cup {[parts |-> t, rom_data |-> Truncate(create_rom(t), n)] :
            t \in {u \in TestRoms : u.header[8] = 0 /\ u.header[7] = 0
                                    /\ u.trainer = None /\ u.header[6] = 0},
            n \in {0, 3, 4, 7, 8, 16}}

InitRom ==
    \E f \in RomFiles :
      /\ cpu = None
      /\ bus = None
      /\ ppu = None
      /\ obs = [Observer_new EXCEPT
                  !.access = [kind |-> "file", parts |-> f.parts,
                              rom_data |-> f.rom_data]]
      /\ pos = "file"

\* the host calls Rom::new on the bytes of the file
RomNew ==
    /\ pos = "file"
    /\ \E r \in {Rom_new(obs.access.rom_data)} :
         /\ obs' = [obs EXCEPT !.access = [kind |-> "rom", parts |-> @.parts,
                                           rom_data |-> @.rom_data, result |-> r]]
         /\ pos' = CASE r.kind = "Ok" -> "cartridge"
                     [] r.kind = "Err" -> "rejected"
                     [] OTHER -> "aborted"
    /\ UNCHANGED <<cpu, bus, ppu>>

\* the host hands the Rom to Bus::new and the bus to CPU::new
BusNew ==
    /\ pos = "cartridge"
    /\ \E b \in {Bus_new(obs.access.result.rom)} :
         /\ bus' = b.bus
         /\ ppu' = b.ppu
    /\ cpu' = CPU_new
    /\ obs' = [obs EXCEPT !.access.kind = "bus"]
    /\ pos' = "poll"

NextRom ==
    \/ RomNew
    \/ BusNew

SpecRom == InitRom /\ [][NextRom]_vars

(***************************************************************************)
(* Properties of the cartridge loader (SpecRom).                           *)
(***************************************************************************)
\* Rom::new has returned
Loaded == obs.access # <<>> /\ obs.access.kind \in {"rom", "bus"}
\* byte i of the file
FileByte(i) == VecAt(obs.access.rom_data, i)
\* the file has its four first bytes and they are the magic
HasMagic ==
    /\ obs.access.rom_data.len >= 4
    /\ \A i \in 1..4 : FileByte(i - 1) = NES_TAG[i]
\* the mapper number of the header
HeaderMapper == (FileByte(7) \div 16) * 16 + FileByte(6) \div 16
\* the file is the header, the trainer when bit 2 of byte 6 announces one,
\* the PRG banks and the CHR banks, whole
WellFormed ==
    /\ obs.access.rom_data = create_rom(obs.access.parts)
    /\ (obs.access.parts.trainer # None) <=> ((FileByte(6) \div 4) % 2 = 1)
\* the n bytes of v are the n bytes of the file from offset from on
SameBytes(v, from, n) ==
    /\ v.len = n
    /\ \A i \in (DOMAIN v.cells)
                \cup {j - from : j \in {k \in DOMAIN obs.access.rom_data.cells :
                                           k >= from /\ k < from + n}} :
         VecAt(v, i) = FileByte(from + i)

\* C32: when Rom::new accepts a file, mapper is the high nibble of byte 7
\* over the high nibble of byte 6, the mirroring is FOUR_SCREEN when bit 3
\* of byte 6 is set, else VERTICAL when bit 0 is set, else HORIZONTAL,
\* prg_rom is the byte4 * 16 KiB bytes of the file from offset 16 (528 when
\* bit 2 of byte 6 is set) and chr_rom the byte5 * 8 KiB bytes after them;
\* for a whole file these are the PRG and CHR banks the file was built from.
C32_RomFields ==
    (Loaded /\ obs.access.result.kind = "Ok") =>
      With(obs.access.result.rom, LAMBDA rom :
      With(IF (FileByte(6) \div 4) % 2 = 1 THEN 528 ELSE 16, LAMBDA start :
        /\ rom.mapper = HeaderMapper
        /\ rom.screen_mirroring =
             (IF (FileByte(6) \div 8) % 2 = 1 THEN "FOUR_SCREEN"
              ELSE IF FileByte(6) % 2 = 1 THEN "VERTICAL" ELSE "HORIZONTAL")
        /\ SameBytes(rom.prg_rom, start, FileByte(4) * 16384)
        /\ SameBytes(rom.chr_rom, start + FileByte(4) * 16384, FileByte(5) * 8192)
        /\ WellFormed => /\ rom.prg_rom = obs.access.parts.pgp_rom
                         /\ rom.chr_rom = obs.access.parts.chr_rom))

\* the file of the test with a trainer: header 4E 45 53 1A 02 01 35 00
C32_Witness ==
    /\ Loaded
    /\ obs.access.result.kind = "Ok"
    /\ FileByte(4) = 2 /\ FileByte(5) = 1 /\ FileByte(6) = 53 /\ FileByte(7) = 0
    /\ WellFormed
    /\ obs.access.result.rom.mapper = 3
    /\ obs.access.result.rom.screen_mirroring = "VERTICAL"
    /\ obs.access.result.rom.prg_rom = Marked(32768, 1)
    /\ obs.access.result.rom.chr_rom = Marked(8192, 2)

\* C33: Rom::new returns the error "Unsupported format" when the first four
\* bytes of the file are not the magic, and otherwise the error "NES2.0 is
\* not supported" when bits 2-3 of byte 7 hold 2; neither file gives a Rom,
\* and no bus is built.
C33_Rejected ==
    Loaded =>
      /\ (obs.access.rom_data.len >= 4 /\ ~HasMagic) =>
           /\ obs.access.result = RomErr("Unsupported format")
           /\ pos = "rejected" /\ bus = None
      /\ (HasMagic /\ obs.access.rom_data.len >= 8 /\ (FileByte(7) \div 4) % 4 = 2) =>
           /\ obs.access.result = RomErr("NES2.0 is not supported")
           /\ pos = "rejected" /\ bus = None

\* the magic, byte 7 = $08
C33_Witness ==
    /\ Loaded
    /\ HasMagic
    /\ FileByte(7) = 8
    /\ obs.access.result = RomErr("NES2.0 is not supported")
    /\ pos = "rejected"

\* C34: a file whose header names a mapper n other than 0 is not loaded:
\* Rom::new answers with an error that names the mapper, and no bus is built
\* from the file.
C34_UnsupportedMapper ==
    (Loaded /\ HasMagic /\ obs.access.rom_data.len >= 8 /\ HeaderMapper # 0) =>
      /\ obs.access.result.kind = "Err"
      /\ (FileByte(7) \div 4) % 4 = 0 =>
           obs.access.result.msg \notin {"Unsupported format", "NES2.0 is not supported"}
      /\ bus = None

(***************************************************************************)
(* The VRAM address after an access of the data port (SpecVram).           *)
(***************************************************************************)
\* C35: every step that is a read or a write of $2007 and completes leaves
\* the VRAM address 1 above the address it found when bit 2 of Control is 0
\* and 32 above when it is 1; a write that finds the address in $0000-$1FFF
\* changes no byte of CHR ROM, nametable RAM or palette RAM and increments
\* the address like the others.
C35_DataIncrement ==
    [][((DataRead' \/ DataWrite') /\ obs'.access.fault = "none") =>
         /\ obs'.access.vram_addr = addr_get(ppu.addr)
         /\ addr_get(ppu'.addr) =
              addr_get(ppu.addr) + (IF (ppu.control \div 4) % 2 = 1 THEN 32 ELSE 1)
         /\ (DataWrite' /\ addr_get(ppu.addr) <= 8191) =>
              /\ ppu'.chr_rom = ppu.chr_rom
              /\ ppu'.vram = ppu.vram
              /\ ppu'.palette_table = ppu.palette_table]_vars

\* a write at $1020 with the increment 32
C35_Witness ==
    /\ DataWrite
    /\ obs.access.fault = "none"
    /\ obs.access.vram_addr = 4128
    /\ (ppu.control \div 4) % 2 = 1
    /\ addr_get(ppu.addr) = 4160
    /\ ppu.chr_rom = ChrImage

(***************************************************************************)
(* ARR (SpecRegs).                                                         *)
(***************************************************************************)
\* C36: the run loop executes opcode $6B: the accumulator is A AND the
\* immediate operand rotated right one place with the carry the instruction
\* found moved into bit 7, PC is past the two bytes of the instruction, the
\* clock has advanced and the loop is at its next poll, not aborted.  (The
\* rule for OVERFLOW and CARRY is not part of the formula.)
C36_Arr ==
    Executed(107) =>
      /\ pos = "poll"
      /\ cpu.register_a =
           BitAnd(obs.access.a, obs.access.operand) \div 2
           + 128 * Flag(obs.access.status, CARRY)
      /\ cpu.program_counter = obs.access.pc + 2
      /\ bus.cycles > obs.access.cycles

(***************************************************************************)
(* PPU dots against bus cycles (Spec).                                     *)
(***************************************************************************)
\* the dot of the frame the PPU stands at
PpuDots == ppu.scanline * DotsPerScanline + ppu.cycles

\* C37: in every state, after whatever instructions and interrupt entries,
\* scanline * 341 + dot is congruent to three times the cycle counter of
\* the bus modulo 341 * 262, the dot stays below 341 and the scanline below
\* 262.
C37_DotsPerCycle ==
    /\ PpuDots % FrameDots = (3 * bus.cycles) % FrameDots
    /\ ppu.cycles < DotsPerScanline
    /\ ppu.scanline < ScanlinesPerFrame

\* a BRK, with the ticks of its interrupt entry and of its base cycles, has
\* taken the PPU from scanline 261 into the next frame
C37_Witness ==
    /\ obs.last_op = "BRK"
    /\ obs.frames > 0
    /\ ppu.scanline = 0
    /\ 3 * bus.cycles = PpuDots + FrameDots
    /\ pos = "poll"

(***************************************************************************)
(* The NMI latch and the vblank flag against the scanline (SpecFrame).     *)
(***************************************************************************)
VblankLines == VblankScanline..(ScanlinesPerFrame - 1)

\* C38: in every state the NMI latch is set only while the scanline is in
\* 241..261 and the vblank flag of the status register is set only while
\* the scanline is in 241..261; on the scanlines 0..240 both are clear.
C38_VblankLines ==
    /\ ppu.nmi_interrupt # None => ppu.scanline \in VblankLines
    /\ is_in_vblank(ppu.status) => ppu.scanline \in VblankLines
    /\ ppu.scanline \in 0..(ScanlinesPerFrame - 1)

\* on the last scanline of the frame a Control write has enabled the NMI
\* and set the latch
C38_Witness ==
    /\ ppu.scanline = ScanlinesPerFrame - 1
    /\ ppu.nmi_interrupt # None
    /\ is_in_vblank(ppu.status)
    /\ obs.ctrl # <<>>
    /\ obs.rises > obs.tick_rises

(***************************************************************************)
(* The frame callback before each NMI entry (SpecFrame).                   *)
(***************************************************************************)
\* C39: whenever the CPU enters the NMI sequence, the bus has called the
\* frame callback since the NMI sequence before it (or since the start of
\* the run), whether the latch was set by a PPU tick or by a write to
\* Control during vblank.
C39_CallbackBeforeNmi ==
    [][obs'.last_op = "nmi" => obs.fresh_callbacks > 0]_vars

(***************************************************************************)
(* What an OAM DMA leaves of the PPU (SpecDmaRegs).                        *)
(***************************************************************************)
\* C40: a write to $4014 completes and changes nothing of the PPU but the
\* contents of OAM, whatever the source page, a page of $2000-$3FFF
\* included: the status register with its vblank bit, the latches of the
\* address and scroll registers, the VRAM address, the read buffer and every
\* other field are after the DMA what they were before it (the OAM address
\* has gone once round).
C40_DmaOnlyOam ==
    [][WriteIn(16404, 16404)' =>
         /\ obs'.access.fault = "none"
         /\ ppu' = [ppu EXCEPT !.oam_data = ppu'.oam_data]]_vars

====
